---------------------------- MODULE Spec2Model ----------------------------
(***************************************************************************)
(* BenchBuilder backend: the projection store (ProjectionService), the     *)
(* scoring engine (ScoringService) and the value-over-replacement ranking  *)
(* (VORService), modelled from src/backend.                                *)
(*                                                                         *)
(* Numbers.  Fantasy points are floats rounded to two decimals in the      *)
(* code; here they are integers counting hundredths of a point.  A stat    *)
(* value counts tenths of its unit, a scoring coefficient counts           *)
(* hundredths of a point per unit, so stat * coefficient counts            *)
(* thousandths of a point.  A scarcity multiplier counts tenths, so an     *)
(* adjusted VOR counts thousandths of a point.  The arithmetic is exact:   *)
(* binary floating-point error is not modelled.                            *)
(*                                                                         *)
(* Python's None is an absent key (a projection's stats), the empty       *)
(* function (no league, no rules, no custom roster: all of them are tested *)
(* by truth value) or the empty set (an Optional value is a set of at most *)
(* one element).  A dict is a function whose DOMAIN is its key set; a dict *)
(* whose iteration order matters (players, projections) is a sequence in   *)
(* insertion order.                                                        *)
(***************************************************************************)
EXTENDS Integers, Sequences, FiniteSets, TLC

VARIABLES
    players,         \* ProjectionService.players: <<[id, name, position, team]>>
    projections,     \* ProjectionService.projections: <<[player_id, stats]>>
    sources,         \* ProjectionService.sources: the set of source names
    next_player_id,  \* ProjectionService.next_player_id
    call,            \* the last operation: [op, args, result, previous]
    in_flight        \* the upload requests received and not yet answered:
                     \* <<[parsed_data, applied]>>, applied the number of
                     \* records of the batch the loop has been through

vars == <<players, projections, sources, next_player_id, call, in_flight>>

store == <<players, projections, sources, next_player_id>>

-----------------------------------------------------------------------------
(* Python helpers *)

\* None where a dict or a model object is expected
None == << >>

\* bool(x) of a dict or None; a model object is always true
IsTrue(x) == DOMAIN x # {}

Max(a, b) == IF a >= b THEN a ELSE b

Min(a, b) == IF a <= b THEN a ELSE b

\* d.get(k, default)
Get(d, k, default) == IF k \in DOMAIN d THEN d[k] ELSE default

\* s[n:] of a list, n of either sign
SliceFrom(s, n) ==
    LET from == IF n >= 0 THEN Min(n, Len(s)) ELSE Max(Len(s) + n, 0)
    IN  SubSeq(s, from + 1, Len(s))

\* s[:n] of a list, n >= 0
SliceTo(s, n) == SubSeq(s, 1, Min(n, Len(s)))

\* s[i] of a list, i of either sign, is an IndexError outside -len..len-1
IndexOk(s, i) == (i >= 0 /\ i < Len(s)) \/ (i < 0 /\ -i <= Len(s))

Index(s, i) == IF i >= 0 THEN s[i + 1] ELSE s[Len(s) + i + 1]

\* the order list.sort(reverse=True) and sorted(..., reverse=True) put the
\* elements with these keys in: the indices by key descending, equal keys in
\* their original order (the sort is stable)
RECURSIVE SortOrder(_)
SortOrder(keys) ==
    IF keys = <<>> THEN <<>>
    ELSE LET n    == Len(keys)
             rest == SortOrder(SubSeq(keys, 1, n - 1))
             k    == Cardinality({i \in 1..Len(rest) : keys[rest[i]] >= keys[n]})
         IN  SubSeq(rest, 1, k) \o <<n>> \o SubSeq(rest, k + 1, Len(rest))

\* s.sort(key=..., reverse=True), keys[i] being the key of s[i]
SortDesc(keys, s) ==
    LET order == SortOrder(keys)
    IN  [i \in 1..Len(s) |-> s[order[i]]]

\* [s[i] for i in range(len(s)) if keep[i]]
RECURSIVE Filter(_, _)
Filter(keep, s) ==
    IF s = <<>> THEN <<>>
    ELSE (IF Head(keep) THEN <<Head(s)>> ELSE <<>>) \o Filter(Tail(keep), Tail(s))

Range(s) == {s[i] : i \in 1..Len(s)}

-----------------------------------------------------------------------------
(* models/player.py *)

\* Position: the values of the enum
Position == {"QB", "RB", "WR", "TE", "K", "DST", "FLEX"}

\* PlayerProjection: the stat fields; a projection is a function from the
\* fields that are not None to their values
StatFields ==
    {"passing_yards", "passing_tds", "interceptions", "rushing_yards",
     "rushing_tds", "receptions", "receiving_yards", "receiving_tds",
     "field_goals", "extra_points", "def_touchdowns", "def_interceptions",
     "def_fumbles", "def_sacks", "def_safeties", "points_allowed",
     "fantasy_points"}

-----------------------------------------------------------------------------
(* Units *)

\* n units of a stat, in tenths
Tenths(n) == n * 10

\* n fantasy points, in hundredths
Pts(n) == n * 100

\* a coefficient or score in hundredths, as thousandths
Thousandths(h) == h * 10

-----------------------------------------------------------------------------
(* services/scoring_service.py, models/league.py: the rule sets *)

\* ScoringService.DEFAULT_SCORING_RULES[ScoringType.STANDARD]
StandardRules ==
    [pass_yard |-> 4, pass_td |-> 400, interception |-> -200,
     rush_yard |-> 10, rush_td |-> 600,
     reception |-> 0, rec_yard |-> 10, rec_td |-> 600,
     fg_made |-> 300, xp_made |-> 100,
     def_td |-> 600, def_int |-> 200, def_fumble |-> 200, def_sack |-> 100,
     def_safety |-> 200,
     points_allowed_0 |-> 1000, points_allowed_1_6 |-> 700,
     points_allowed_7_13 |-> 400, points_allowed_14_20 |-> 100,
     points_allowed_21_27 |-> 0, points_allowed_28_34 |-> -100,
     points_allowed_35_plus |-> -400]

\* ScoringService.DEFAULT_SCORING_RULES[ScoringType.PPR]
PprRules == [StandardRules EXCEPT !.reception = 100]

\* ScoringService.DEFAULT_SCORING_RULES[ScoringType.HALF_PPR]
HalfPprRules == [StandardRules EXCEPT !.reception = 50]

\* ScoringService.LEAGUE_SPECIFIC_RULES["friends_of_joseph_e_aoun"]
LeagueSpecificRules ==
    [pass_yard |-> 4, pass_td |-> 400, interception |-> -100, pass_2pt |-> 200,
     rush_yard |-> 10, rush_td |-> 600, rush_2pt |-> 200, fumble_lost |-> -200,
     reception |-> 100, rec_yard |-> 10, rec_td |-> 600, rec_2pt |-> 200,
     return_td |-> 600, offensive_fumble_return_td |-> 600,
     fg_0_19 |-> 300, fg_20_29 |-> 300, fg_30_39 |-> 300, fg_40_49 |-> 400,
     fg_50_plus |-> 500, xp_made |-> 100,
     def_sack |-> 100, def_int |-> 200, def_fumble |-> 200, def_td |-> 600,
     def_safety |-> 200, def_block_kick |-> 200, def_return_td |-> 600,
     def_xp_return |-> 200,
     points_allowed_0 |-> 1000, points_allowed_1_6 |-> 700,
     points_allowed_7_13 |-> 400, points_allowed_14_20 |-> 100,
     points_allowed_21_27 |-> 0, points_allowed_28_34 |-> -100,
     points_allowed_35_plus |-> -400]

\* League.scoring_rules: the field's default, which League(...) keeps
\* whatever scoring_type it is given
LeagueDefaultScoringRules ==
    [pass_yard |-> 4, pass_td |-> 400, interception |-> -200,
     rush_yard |-> 10, rush_td |-> 600,
     reception |-> 100, rec_yard |-> 10, rec_td |-> 600,
     fg_made |-> 300, xp_made |-> 100, fg_miss |-> -100,
     def_td |-> 600, def_int |-> 200, def_fumble |-> 200, def_sack |-> 100,
     def_safety |-> 200,
     points_allowed_0 |-> 1000, points_allowed_1_6 |-> 700,
     points_allowed_7_13 |-> 400, points_allowed_14_20 |-> 100,
     points_allowed_21_27 |-> 0, points_allowed_28_34 |-> -100,
     points_allowed_35_plus |-> -400]

\* ScoringType
ScoringType == {"standard", "ppr", "half_ppr"}

\* League(id, name, num_teams, scoring_type): the fields the services read
League(num_teams, scoring_type) ==
    [num_teams |-> num_teams, scoring_type |-> scoring_type,
     scoring_rules |-> LeagueDefaultScoringRules]

\* ScoringService.get_league_scoring_rules()
GetLeagueScoringRules == LeagueSpecificRules

\* ScoringService.DEFAULT_SCORING_RULES[scoring_type]
DefaultScoringRules(scoring_type) ==
    IF scoring_type = "standard" THEN StandardRules
    ELSE IF scoring_type = "ppr" THEN PprRules
    ELSE HalfPprRules

\* ScoringService.create_custom_league(league_name, scoring_type,
\* custom_rules): the preset's rules with custom_rules written over them
CreateCustomLeague(scoring_type, custom_rules) ==
    LET base_rules == DefaultScoringRules(scoring_type)
    IN  [num_teams |-> 12, scoring_type |-> scoring_type,
         scoring_rules |->
            [rule \in DOMAIN base_rules \cup DOMAIN custom_rules |->
                IF rule \in DOMAIN custom_rules THEN custom_rules[rule]
                ELSE base_rules[rule]]]

\* ScoringService.validate_scoring_rules(rules): the warnings
ValidateScoringRules(rules) ==
    LET required_rules == <<"pass_yard", "pass_td", "rush_yard", "rush_td",
                            "reception", "rec_yard", "rec_td">>
        low(rule, text) == IF Get(rules, rule, 0) < Pts(1)
                           THEN <<[warning |-> text]>> ELSE <<>>
    IN  Filter([i \in 1..Len(required_rules) |->
                   required_rules[i] \notin DOMAIN rules],
               [i \in 1..Len(required_rules) |->
                   [warning |-> "Missing scoring rule", rule |-> required_rules[i]]])
        \o low("pass_td", "Passing TD points seem low (< 1)")
        \o low("rush_td", "Rushing TD points seem low (< 1)")
        \o low("rec_td", "Receiving TD points seem low (< 1)")

-----------------------------------------------------------------------------
(* services/scoring_service.py: calculate_fantasy_points *)

\* if projection.<field>:  the field is neither None nor 0
Truthy(projection, field) ==
    field \in DOMAIN projection /\ projection[field] # 0

\* the points-allowed cascade with the upper bound of every band excluded
PointsAllowedScoreExclusive(points_allowed, rules) ==
    IF points_allowed = 0 THEN Get(rules, "points_allowed_0", 0)
    ELSE IF points_allowed < Tenths(6) THEN Get(rules, "points_allowed_1_6", 0)
    ELSE IF points_allowed < Tenths(13) THEN Get(rules, "points_allowed_7_13", 0)
    ELSE IF points_allowed < Tenths(20) THEN Get(rules, "points_allowed_14_20", 0)
    ELSE IF points_allowed < Tenths(27) THEN Get(rules, "points_allowed_21_27", 0)
    ELSE IF points_allowed < Tenths(34) THEN Get(rules, "points_allowed_28_34", 0)
    ELSE Get(rules, "points_allowed_35_plus", 0)

\* the rule key the cascade of _calculate_points_allowed_score reads;
\* points_allowed in tenths
PointsAllowedKey(points_allowed) ==
    IF points_allowed = 0 THEN "points_allowed_0"
    ELSE IF points_allowed <= Tenths(6) THEN "points_allowed_1_6"
    ELSE IF points_allowed <= Tenths(13) THEN "points_allowed_7_13"
    ELSE IF points_allowed <= Tenths(20) THEN "points_allowed_14_20"
    ELSE IF points_allowed <= Tenths(27) THEN "points_allowed_21_27"
    ELSE IF points_allowed <= Tenths(34) THEN "points_allowed_28_34"
    ELSE "points_allowed_35_plus"

\* ScoringService._calculate_points_allowed_score; points_allowed in tenths,
\* the score in hundredths
PointsAllowedScore(points_allowed, rules) ==
    Get(rules, PointsAllowedKey(points_allowed), 0)

\* the (stat, rule key) pairs of calculate_fantasy_points that are scored as
\* stat * rules.get(key, 0), in the order of the code
LinearCategories ==
    << <<"passing_yards", "pass_yard">>, <<"passing_tds", "pass_td">>,
       <<"interceptions", "interception">>,
       <<"rushing_yards", "rush_yard">>, <<"rushing_tds", "rush_td">>,
       <<"receptions", "reception">>, <<"receiving_yards", "rec_yard">>,
       <<"receiving_tds", "rec_td">>,
       <<"extra_points", "xp_made">>,
       <<"def_touchdowns", "def_td">>, <<"def_interceptions", "def_int">>,
       <<"def_fumbles", "def_fumble">>, <<"def_sacks", "def_sack">>,
       <<"def_safeties", "def_safety">> >>

\* one "if projection.x: total_points += projection.x * rules.get(k, 0)"
LinearTerm(projection, rules, cat) ==
    IF Truthy(projection, cat[1])
    THEN projection[cat[1]] * Get(rules, cat[2], 0)
    ELSE 0

RECURSIVE SumLinear(_, _, _)
SumLinear(projection, rules, n) ==
    IF n = 0 THEN 0
    ELSE SumLinear(projection, rules, n - 1)
         + LinearTerm(projection, rules, LinearCategories[n])

\* the kicking branch: PlayerProjection has no field_goals_by_distance, so
\* the generic per-kick value is always the one used
FieldGoalTerm(projection, rules) ==
    IF Truthy(projection, "field_goals")
    THEN projection["field_goals"]
         * Get(rules, "fg_made", Get(rules, "fg_30_39", Pts(3)))
    ELSE 0

\* "if projection.points_allowed is not None": also scored when it is 0
PointsAllowedTerm(projection, rules) ==
    IF "points_allowed" \in DOMAIN projection
    THEN Thousandths(PointsAllowedScore(projection["points_allowed"], rules))
    ELSE 0

\* round(total_points, 2): thousandths to hundredths, ties to the even digit
Round2(t) ==
    LET q == t \div 10
        r == t % 10
    IN  IF r < 5 THEN q
        ELSE IF r > 5 THEN q + 1
        ELSE IF q % 2 = 0 THEN q ELSE q + 1

\* the rules calculate_fantasy_points scores with: scoring_rules if given,
\* else the league's, else the league-specific default
RulesFor(league, scoring_rules) ==
    IF IsTrue(scoring_rules) THEN scoring_rules
    ELSE IF IsTrue(league) THEN league.scoring_rules
    ELSE GetLeagueScoringRules

\* A rule set is a dict the engine does not validate: an entry may hold a
\* value that is not a number (None, a string).  Such entries are the keys
\* listed under "non_numeric"; they are not in the DOMAIN otherwise.
NonNumeric(rules) ==
    IF "non_numeric" \in DOMAIN rules THEN rules["non_numeric"] ELSE {}

\* the body of calculate_fantasy_points raises: the league object has no
\* scoring_rules attribute (AttributeError), or a statement that is executed
\* multiplies or adds a rule value that is not a number (TypeError)
ScoringRaises(projection, league, scoring_rules) ==
    IF ~IsTrue(scoring_rules) /\ IsTrue(league)
       /\ "scoring_rules" \notin DOMAIN league
    THEN TRUE
    ELSE LET rules == RulesFor(league, scoring_rules)
             bad == NonNumeric(rules)
         IN  \/ \E i \in 1..Len(LinearCategories) :
                   /\ Truthy(projection, LinearCategories[i][1])
                   /\ LinearCategories[i][2] \in bad
             \/ /\ Truthy(projection, "field_goals")
                /\ \/ "fg_made" \in bad
                   \/ "fg_made" \notin DOMAIN rules /\ "fg_30_39" \in bad
             \/ /\ "points_allowed" \in DOMAIN projection
                /\ PointsAllowedKey(projection["points_allowed"]) \in bad

\* calculate_fantasy_points if a failure were skipped over instead of giving
\* 0.0: the statements that raise add nothing, a league without rules is
\* scored with the default rules
CalculateFantasyPointsSkipping(projection, league, scoring_rules) ==
    LET rules == IF ~IsTrue(scoring_rules) /\ IsTrue(league)
                    /\ "scoring_rules" \notin DOMAIN league
                 THEN GetLeagueScoringRules
                 ELSE RulesFor(league, scoring_rules)
    IN  Round2(SumLinear(projection, rules, Len(LinearCategories))
               + FieldGoalTerm(projection, rules)
               + PointsAllowedTerm(projection, rules))

\* ScoringService.calculate_fantasy_points, in hundredths of a point: the
\* rounded total, or 0.0 when anything in its body raises
CalculateFantasyPoints(projection, league, scoring_rules) ==
    IF ScoringRaises(projection, league, scoring_rules) THEN 0
    ELSE LET rules == RulesFor(league, scoring_rules)
         IN  Round2(SumLinear(projection, rules, Len(LinearCategories))
                    + FieldGoalTerm(projection, rules)
                    + PointsAllowedTerm(projection, rules))

-----------------------------------------------------------------------------
(* config/league_rules.py *)

\* get_position_scarcity_multiplier, in tenths
GetPositionScarcityMultiplier(position) ==
    IF position = "QB" THEN 10
    ELSE IF position \in {"RB", "WR"} THEN 12
    ELSE IF position = "TE" THEN 11
    ELSE IF position = "K" THEN 8
    ELSE IF position = "DEF" THEN 8
    ELSE 10

-----------------------------------------------------------------------------
(* services/projection_service.py: the queries *)

\* self.players.get(player_id): the players with that id (at most one)
PlayerById(plys, player_id) ==
    Filter([i \in 1..Len(plys) |-> plys[i].id = player_id], plys)

\* the sort keys of get_projections: x['projection'].get('fantasy_points') or 0
StoredPointsKeys(results) ==
    [i \in 1..Len(results) |-> Get(results[i].projection, "fantasy_points", 0)]

\* ProjectionService.get_projections() without filters: one entry for each
\* projection whose player exists, in the order of the projections dict, then
\* sorted by the stored fantasy_points
RECURSIVE CombineProjections(_, _)
CombineProjections(plys, projs) ==
    IF projs = <<>> THEN <<>>
    ELSE LET found == PlayerById(plys, Head(projs).player_id)
         IN  (IF found = <<>> THEN <<>>
              ELSE <<[player |-> found[1], projection |-> Head(projs).stats]>>)
             \o CombineProjections(plys, Tail(projs))

GetProjections(plys, projs) ==
    LET results == CombineProjections(plys, projs)
    IN  SortDesc(StoredPointsKeys(results), results)

-----------------------------------------------------------------------------
(* services/vor_service.py *)

\* VORService.DEFAULT_ROSTER_CONSTRUCTION
DefaultRosterConstruction ==
    [QB |-> 14, RB |-> 28, WR |-> 28, TE |-> 14, K |-> 14, DST |-> 14]

\* VORService.LEAGUE_ROSTER_CONSTRUCTION
LeagueRosterConstruction ==
    [QB |-> 14, RB |-> 42, WR |-> 42, TE |-> 28, K |-> 14, DST |-> 14]

\* the positions the FLEX branches name
FlexEligible == <<"RB", "WR", "TE">>

\* key=lambda x: x['fantasy_points']
PointsKeys(s) == [i \in 1..Len(s) |-> s[i].fantasy_points]

\* key=lambda x: x['adjusted_vor']
AdjustedVorKeys(s) == [i \in 1..Len(s) |-> s[i].adjusted_vor]

\* the first loop of calculate_vor_rankings: one entry per projection, with
\* the points the scoring service gives it
PlayersWithPoints(projections_data, league) ==
    [i \in 1..Len(projections_data) |->
        [player |-> projections_data[i].player,
         fantasy_points |->
            CalculateFantasyPoints(projections_data[i].projection, league, None)]]

\* _create_position_rankings without its sort
CreatePositionRankingsUnsorted(players_with_points) ==
    LET present == {players_with_points[i].player.position :
                        i \in 1..Len(players_with_points)}
    IN  [position \in present |->
            LET of_position ==
                    Filter([i \in 1..Len(players_with_points) |->
                               players_with_points[i].player.position = position],
                           players_with_points)
            IN  [i \in 1..Len(of_position) |->
                    [player |-> of_position[i].player,
                     fantasy_points |-> of_position[i].fantasy_points,
                     position_rank |-> i]]]

\* VORService._create_position_rankings: per position present, the players
\* by points descending, each with its position_rank
CreatePositionRankings(players_with_points) ==
    LET present == {players_with_points[i].player.position :
                        i \in 1..Len(players_with_points)}
    IN  [position \in present |->
            LET of_position ==
                    Filter([i \in 1..Len(players_with_points) |->
                               players_with_points[i].player.position = position],
                           players_with_points)
                ranked == SortDesc(PointsKeys(of_position), of_position)
            IN  [i \in 1..Len(ranked) |->
                    [player |-> ranked[i].player,
                     fantasy_points |-> ranked[i].fantasy_points,
                     position_rank |-> i]]]

\* _create_position_rankings writes position_rank into the dicts of
\* players_with_points themselves: the list as the later steps see it
WithPositionRank(players_with_points, position_rankings) ==
    [i \in 1..Len(players_with_points) |->
        LET x == players_with_points[i]
            ranked == position_rankings[x.player.position]
            same == Filter([j \in 1..Len(ranked) |->
                               ranked[j].player.id = x.player.id], ranked)
        IN  same[1]]

\* VORService._get_roster_construction
GetRosterConstruction(custom_roster, num_teams, include_flex) ==
    IF IsTrue(custom_roster) THEN custom_roster
    ELSE LET roster ==
                 IF num_teams = 14 THEN LeagueRosterConstruction
                 ELSE [position \in DOMAIN DefaultRosterConstruction |->
                          (DefaultRosterConstruction[position] * num_teams) \div 14]
         IN  IF include_flex
             THEN [position \in DOMAIN roster \cup {"FLEX"} |->
                      IF position = "FLEX" THEN num_teams ELSE roster[position]]
             ELSE roster

\* FlexCandidatesFrom with every RB, WR and TE as a candidate
RECURSIVE FlexCandidatesAll(_, _, _)
FlexCandidatesAll(position_rankings, roster_construction, n) ==
    IF n > 3 THEN <<>>
    ELSE (IF <<"RB", "WR", "TE">>[n] \in DOMAIN position_rankings
          THEN position_rankings[<<"RB", "WR", "TE">>[n]]
          ELSE <<>>)
         \o FlexCandidatesAll(position_rankings, roster_construction, n + 1)

\* the FLEX branch of _calculate_replacement_levels: the players beyond the
\* normal starters of RB, WR and TE, by points descending
RECURSIVE FlexCandidatesFrom(_, _, _)
FlexCandidatesFrom(position_rankings, roster_construction, n) ==
    IF n > Len(FlexEligible) THEN <<>>
    ELSE LET flex_pos == FlexEligible[n]
         IN  (IF flex_pos \in DOMAIN position_rankings
              THEN SliceFrom(position_rankings[flex_pos],
                             Get(roster_construction, flex_pos, 0))
              ELSE <<>>)
             \o FlexCandidatesFrom(position_rankings, roster_construction, n + 1)

FlexCandidates(position_rankings, roster_construction) ==
    LET flex_candidates ==
            FlexCandidatesFrom(position_rankings, roster_construction, 1)
    IN  SortDesc(PointsKeys(flex_candidates), flex_candidates)

\* LevelOf with the player after the last starter as the baseline
LevelOfNextPlayer(ranked, num_drafted) ==
    IF ranked # <<>>
    THEN IF Len(ranked) > num_drafted
         THEN Index(ranked, num_drafted).fantasy_points
         ELSE Index(ranked, -1).fantasy_points
    ELSE 0

\* the replacement level of a ranked list: the num_drafted-th entry, or the
\* last entry when the list is shorter, or 0 when it is empty
LevelOf(ranked, num_drafted) ==
    IF ranked # <<>>
    THEN IF Len(ranked) >= num_drafted
         THEN Index(ranked, num_drafted - 1).fantasy_points
         ELSE Index(ranked, -1).fantasy_points
    ELSE 0

\* the list _calculate_replacement_levels reads for a key of the roster
RankedFor(position_rankings, roster_construction, position) ==
    IF position = "FLEX"
    THEN FlexCandidates(position_rankings, roster_construction)
    ELSE Get(position_rankings, position, <<>>)

\* VORService._calculate_replacement_levels
CalculateReplacementLevels(position_rankings, roster_construction) ==
    [position \in DOMAIN roster_construction |->
        LevelOf(RankedFor(position_rankings, roster_construction, position),
                roster_construction[position])]

\* _calculate_replacement_levels raises IndexError when players[num_drafted - 1]
\* is outside the list (a negative num_drafted)
ReplacementLevelsRaise(position_rankings, roster_construction) ==
    \E position \in DOMAIN roster_construction :
        LET ranked == RankedFor(position_rankings, roster_construction, position)
            num_drafted == roster_construction[position]
        IN  /\ ranked # <<>>
            /\ Len(ranked) >= num_drafted
            /\ ~IndexOk(ranked, num_drafted - 1)

\* _get_value_tier with exclusive lower bounds
GetValueTierExclusive(vor) ==
    IF vor > Thousandths(Pts(100)) THEN "Elite"
    ELSE IF vor > Thousandths(Pts(50)) THEN "High"
    ELSE IF vor > Thousandths(Pts(20)) THEN "Medium"
    ELSE IF vor > 0 THEN "Low"
    ELSE "Below Replacement"

\* VORService._get_value_tier; vor in thousandths of a point
GetValueTier(vor) ==
    IF vor >= Thousandths(Pts(100)) THEN "Elite"
    ELSE IF vor >= Thousandths(Pts(50)) THEN "High"
    ELSE IF vor >= Thousandths(Pts(20)) THEN "Medium"
    ELSE IF vor >= 0 THEN "Low"
    ELSE "Below Replacement"

\* VorValue with the positional VOR kept whatever the FLEX level
VorValueNoFlex(player_data, replacement_levels) ==
    LET raw_vor == player_data.fantasy_points
                   - Get(replacement_levels, player_data.player.position, 0)
        multiplier == GetPositionScarcityMultiplier(player_data.player.position)
    IN  [player |-> player_data.player,
         fantasy_points |-> player_data.fantasy_points,
         position_rank |-> player_data.position_rank,
         vor |-> raw_vor,
         adjusted_vor |-> raw_vor * multiplier,
         flex_vor |-> {},
         replacement_level |->
            Get(replacement_levels, player_data.player.position, 0),
         scarcity_multiplier |-> multiplier,
         value_tier |-> GetValueTier(raw_vor * multiplier)]

\* the body of the loop of _calculate_vor_values
VorValue(player_data, replacement_levels) ==
    LET position == player_data.player.position
        fantasy_points == player_data.fantasy_points
        replacement_level == Get(replacement_levels, position, 0)
        raw_vor == fantasy_points - replacement_level
        has_flex == position \in Range(FlexEligible)
                    /\ "FLEX" \in DOMAIN replacement_levels
        flex_vor == IF has_flex
                    THEN {fantasy_points - replacement_levels["FLEX"]}
                    ELSE {}
        vor == IF has_flex
               THEN Max(raw_vor, fantasy_points - replacement_levels["FLEX"])
               ELSE raw_vor
        scarcity_multiplier == GetPositionScarcityMultiplier(position)
        adjusted_vor == vor * scarcity_multiplier
    IN  [player |-> player_data.player,
         fantasy_points |-> fantasy_points,
         position_rank |-> player_data.position_rank,
         vor |-> vor,
         adjusted_vor |-> adjusted_vor,
         flex_vor |-> flex_vor,
         replacement_level |-> replacement_level,
         scarcity_multiplier |-> scarcity_multiplier,
         value_tier |-> GetValueTier(adjusted_vor)]

\* VORService._calculate_vor_values
CalculateVorValues(players_with_points, replacement_levels) ==
    [i \in 1..Len(players_with_points) |->
        VorValue(players_with_points[i], replacement_levels)]

\* _create_overall_rankings without its sort
CreateOverallRankingsUnsorted(vor_results) ==
    [i \in 1..Len(vor_results) |->
        [player |-> vor_results[i].player,
         fantasy_points |-> vor_results[i].fantasy_points,
         position_rank |-> vor_results[i].position_rank,
         vor |-> vor_results[i].vor,
         adjusted_vor |-> vor_results[i].adjusted_vor,
         flex_vor |-> vor_results[i].flex_vor,
         replacement_level |-> vor_results[i].replacement_level,
         scarcity_multiplier |-> vor_results[i].scarcity_multiplier,
         value_tier |-> vor_results[i].value_tier,
         overall_rank |-> i]]

\* _create_overall_rankings with the player id as a second sort key
CreateOverallRankingsTieById(vor_results) ==
    LET overall_rankings ==
            SortDesc([i \in 1..Len(vor_results) |->
                         vor_results[i].adjusted_vor * 1000
                         - vor_results[i].player.id],
                     vor_results)
    IN  [i \in 1..Len(overall_rankings) |->
            [player |-> overall_rankings[i].player,
             fantasy_points |-> overall_rankings[i].fantasy_points,
             position_rank |-> overall_rankings[i].position_rank,
             vor |-> overall_rankings[i].vor,
             adjusted_vor |-> overall_rankings[i].adjusted_vor,
             flex_vor |-> overall_rankings[i].flex_vor,
             replacement_level |-> overall_rankings[i].replacement_level,
             scarcity_multiplier |-> overall_rankings[i].scarcity_multiplier,
             value_tier |-> overall_rankings[i].value_tier,
             overall_rank |-> i]]

\* VORService._create_overall_rankings
CreateOverallRankings(vor_results) ==
    LET overall_rankings == SortDesc(AdjustedVorKeys(vor_results), vor_results)
    IN  [i \in 1..Len(overall_rankings) |->
            [player |-> overall_rankings[i].player,
             fantasy_points |-> overall_rankings[i].fantasy_points,
             position_rank |-> overall_rankings[i].position_rank,
             vor |-> overall_rankings[i].vor,
             adjusted_vor |-> overall_rankings[i].adjusted_vor,
             flex_vor |-> overall_rankings[i].flex_vor,
             replacement_level |-> overall_rankings[i].replacement_level,
             scarcity_multiplier |-> overall_rankings[i].scarcity_multiplier,
             value_tier |-> overall_rankings[i].value_tier,
             overall_rank |-> i]]

\* VORService.calculate_vor_rankings on the store (plys, projs): the dict it
\* returns, or [raised |-> message] for the ValueError it raises
VorRankings(plys, projs, league, num_teams, include_flex, custom_roster) ==
    LET projections_data == GetProjections(plys, projs)
        players_with_points == PlayersWithPoints(projections_data, league)
        position_rankings == CreatePositionRankings(players_with_points)
        roster_construction ==
            GetRosterConstruction(custom_roster, num_teams, include_flex)
        replacement_levels ==
            CalculateReplacementLevels(position_rankings, roster_construction)
        vor_results ==
            CalculateVorValues(
                WithPositionRank(players_with_points, position_rankings),
                replacement_levels)
    IN  IF projections_data = <<>>
        THEN [error |-> "No projection data available"]
        ELSE IF ReplacementLevelsRaise(position_rankings, roster_construction)
        THEN [raised |-> "Failed to calculate VOR: list index out of range"]
        ELSE [vor_rankings |-> CreateOverallRankings(vor_results),
              position_rankings |-> position_rankings,
              replacement_levels |-> replacement_levels,
              roster_construction |-> roster_construction,
              total_players |-> Len(players_with_points),
              league_size |-> num_teams]

-----------------------------------------------------------------------------
(* The operations *)

\* call.previous is the ranking call that came just before a ranking call
\* with the same arguments, with no other operation in between (None
\* otherwise)
NoCall == [op |-> "none", args |-> << >>, result |-> << >>, previous |-> None]

\* what a ranking call leaves in call.previous of the ranking call with the
\* arguments args after it
PreviousRanking(args) ==
    IF call.op = "calculate_vor_rankings" /\ call.args = args
    THEN [args |-> call.args, result |-> call.result]
    ELSE None

\* calculate_vor_rankings if it wrote the points it computes back into the
\* stored projections
CalculateVorRankingsStoring(league, num_teams, include_flex, custom_roster) ==
    /\ call' = [op |-> "calculate_vor_rankings",
                args |-> [league |-> league, num_teams |-> num_teams,
                          include_flex |-> include_flex,
                          custom_roster |-> custom_roster],
                result |-> VorRankings(players, projections, league,
                                       num_teams, include_flex, custom_roster),
                previous |-> PreviousRanking(
                    [league |-> league, num_teams |-> num_teams,
                     include_flex |-> include_flex,
                     custom_roster |-> custom_roster])]
    /\ projections' =
          [i \in 1..Len(projections) |->
              [player_id |-> projections[i].player_id,
               stats |-> [f \in DOMAIN projections[i].stats \cup {"fantasy_points"} |->
                            IF f = "fantasy_points"
                            THEN CalculateFantasyPoints(projections[i].stats,
                                                        league, None)
                            ELSE projections[i].stats[f]]]]
    /\ UNCHANGED <<players, sources, next_player_id>>

\* VORService.calculate_vor_rankings(league, num_teams, include_flex,
\* custom_roster): reads the store, changes nothing
CalculateVorRankings(league, num_teams, include_flex, custom_roster) ==
    /\ call' = [op |-> "calculate_vor_rankings",
                args |-> [league |-> league, num_teams |-> num_teams,
                          include_flex |-> include_flex,
                          custom_roster |-> custom_roster],
                result |-> VorRankings(players, projections, league,
                                       num_teams, include_flex, custom_roster),
                previous |-> PreviousRanking(
                    [league |-> league, num_teams |-> num_teams,
                     include_flex |-> include_flex,
                     custom_roster |-> custom_roster])]
    /\ UNCHANGED store

\* the pick number if every round ran in the order of round 1
OverallPickNoSnake(round_number, draft_position, num_teams) ==
    (round_number - 1) * num_teams + draft_position

\* get_draft_targets_by_vor: the overall pick number of a snake draft
OverallPick(round_number, draft_position, num_teams) ==
    IF round_number % 2 = 1
    THEN (round_number - 1) * num_teams + draft_position
    ELSE (round_number - 1) * num_teams + (num_teams - draft_position + 1)

\* the availability filter with a strict comparison
AvailablePlayersStrict(vor_rankings, overall_pick) ==
    Filter([i \in 1..Len(vor_rankings) |->
               vor_rankings[i].overall_rank > overall_pick - 5],
           vor_rankings)

\* get_draft_targets_by_vor: the players likely to be available
AvailablePlayers(vor_rankings, overall_pick) ==
    Filter([i \in 1..Len(vor_rankings) |->
               vor_rankings[i].overall_rank >= overall_pick - 5],
           vor_rankings)

\* get_draft_targets_by_vor: the first 20 available players grouped by
\* str(player.position)
TargetsByPosition(available_players) ==
    LET top == SliceTo(available_players, 20)
    IN  [position \in {top[i].player.position : i \in 1..Len(top)} |->
            Filter([i \in 1..Len(top) |-> top[i].player.position = position],
                   top)]

\* VORService.get_draft_targets_by_vor: the value returned.  Without
\* projections calculate_vor_rankings returns an error record, the lookup
\* of 'vor_rankings' raises KeyError and the text of the exception is returned.
DraftTargets(plys, projs, round_number, draft_position, league, num_teams) ==
    LET overall_pick == OverallPick(round_number, draft_position, num_teams)
        vor_data == VorRankings(plys, projs, league, num_teams, TRUE, None)
    IN  IF "vor_rankings" \notin DOMAIN vor_data
        THEN [error |-> "'vor_rankings'"]
        ELSE LET available_players ==
                     AvailablePlayers(vor_data.vor_rankings, overall_pick)
             IN  [round |-> round_number,
                  pick |-> draft_position,
                  overall_pick |-> overall_pick,
                  targets_by_position |-> TargetsByPosition(available_players),
                  top_targets |-> SliceTo(available_players, 10)]

\* VORService.get_draft_targets_by_vor(round_number, draft_position, league,
\* num_teams): reads the store, changes nothing
GetDraftTargetsByVor(round_number, draft_position, league, num_teams) ==
    /\ call' = [op |-> "get_draft_targets_by_vor",
                args |-> [round_number |-> round_number,
                          draft_position |-> draft_position,
                          league |-> league, num_teams |-> num_teams],
                result |-> DraftTargets(players, projections, round_number,
                                        draft_position, league, num_teams),
                previous |-> None]
    /\ UNCHANGED store

\* ScoringService.calculate_fantasy_points(projection, league,
\* scoring_rules): reads nothing of the store
ScoreProjection(projection, league, scoring_rules) ==
    /\ call' = [op |-> "calculate_fantasy_points",
                args |-> [projection |-> projection, league |-> league,
                          scoring_rules |-> scoring_rules],
                result |-> CalculateFantasyPoints(projection, league,
                                                  scoring_rules),
                previous |-> None]
    /\ UNCHANGED store

\* the (stat, rule key) pairs of get_scoring_breakdown
BreakdownCategories ==
    Range(LinearCategories) \cup {<<"field_goals", "fg_made">>}

\* sum(breakdown.values()) over the entries with these keys
RECURSIVE SumEntries(_, _)
SumEntries(entries, keys) ==
    IF keys = {} THEN 0
    ELSE LET k == CHOOSE k \in keys : TRUE
         IN  entries[k] + SumEntries(entries, keys \ {k})

\* get_scoring_breakdown raises (it has no try): the league object has no
\* scoring_rules, or an entry it computes or sums is not a number
BreakdownRaises(projection, league, scoring_rules) ==
    IF ~IsTrue(scoring_rules) /\ IsTrue(league)
       /\ "scoring_rules" \notin DOMAIN league
    THEN TRUE
    ELSE LET rules == RulesFor(league, scoring_rules)
             bad == NonNumeric(rules)
         IN  \/ \E cat \in BreakdownCategories :
                   Truthy(projection, cat[1]) /\ cat[2] \in bad
             \/ /\ "points_allowed" \in DOMAIN projection
                /\ PointsAllowedKey(projection["points_allowed"]) \in bad

\* ScoringService.get_scoring_breakdown(projection, league, scoring_rules):
\* the entries in thousandths of a point (nothing is rounded)
GetScoringBreakdown(projection, league, scoring_rules) ==
    IF BreakdownRaises(projection, league, scoring_rules)
    THEN [raised |-> "Exception"]
    ELSE LET rules == RulesFor(league, scoring_rules)
             scored == {cat \in BreakdownCategories : Truthy(projection, cat[1])}
             lines == [field \in {cat[1] : cat \in scored} |->
                          LET cat == CHOOSE cat \in scored : cat[1] = field
                          IN  projection[field] * Get(rules, cat[2], 0)]
             entries == [field \in DOMAIN lines
                                   \cup (IF "points_allowed" \in DOMAIN projection
                                         THEN {"points_allowed"} ELSE {}) |->
                            IF field = "points_allowed"
                            THEN Thousandths(PointsAllowedScore(
                                     projection["points_allowed"], rules))
                            ELSE lines[field]]
         IN  [field \in DOMAIN entries \cup {"total"} |->
                 IF field = "total" THEN SumEntries(entries, DOMAIN entries)
                 ELSE entries[field]]

\* the breakdown asked for a projection
ScoringBreakdown(projection, league, scoring_rules) ==
    /\ call' = [op |-> "get_scoring_breakdown",
                args |-> [projection |-> projection, league |-> league,
                          scoring_rules |-> scoring_rules],
                result |-> GetScoringBreakdown(projection, league,
                                               scoring_rules),
                previous |-> None]
    /\ UNCHANGED store

\* str.lower() on the names the records below carry
NameLower(name) ==
    IF name \in {"Ann", "ANN"} THEN "ann"
    ELSE IF name = "Bob" THEN "bob"
    ELSE IF name = "Cy" THEN "cy"
    ELSE IF name = "Dee" THEN "dee"
    ELSE IF name = "Eve" THEN "eve"
    ELSE IF name = "Fay" THEN "fay"
    ELSE name

\* str.upper() on the team filters the queries below are asked with
TeamUpper(team) ==
    IF team = "kc" THEN "KC"
    ELSE IF team = "buf" THEN "BUF"
    ELSE team

\* ProjectionService.get_projections(position, team, limit); position, team
\* and limit are Optional (a set of at most one element).  With a position
\* filter the first projection that has a player raises AttributeError:
\* player.position is a plain str and has no .value; the method does not
\* catch it.
GetProjectionsFiltered(plys, projs, position, team, limit) ==
    LET all == CombineProjections(plys, projs)
    IN  IF position # {} /\ all # <<>>
        THEN [raised |-> "AttributeError"]
        ELSE LET results ==
                     Filter([i \in 1..Len(all) |->
                                \A t \in team :
                                    t = "" \/ all[i].player.team = TeamUpper(t)],
                            all)
                 sorted == SortDesc(StoredPointsKeys(results), results)
             IN  IF \E n \in limit : n # 0
                 THEN SliceTo(sorted, CHOOSE n \in limit : TRUE)
                 ELSE sorted

\* ProjectionService.get_player_projection(player_id): None, or the player
\* with its projection
GetPlayerProjectionResult(plys, projs, player_id) ==
    LET player == PlayerById(plys, player_id)
        projection == Filter([i \in 1..Len(projs) |->
                                 projs[i].player_id = player_id], projs)
    IN  IF player = <<>> \/ projection = <<>> THEN None
        ELSE [player |-> player[1], projection |-> projection[1].stats]

\* "query_lower in name.lower()" for the queries the model asks: the
\* lower-cased names that contain the query
NamesContaining(query_lower) ==
    IF query_lower = "" THEN {"ann", "bob", "cy", "dee", "eve", "fay"}
    ELSE IF query_lower = "e" THEN {"dee", "eve"}
    ELSE IF query_lower = "ann" THEN {"ann"}
    ELSE {}

\* str.lower() on the queries the model asks
QueryLower(query) ==
    IF query = "E" THEN "e" ELSE IF query = "Ann" THEN "ann" ELSE query

\* ProjectionService.search_players(query, limit)
SearchPlayersResult(plys, projs, query, limit) ==
    LET found == Filter([i \in 1..Len(plys) |->
                            NameLower(plys[i].name)
                                \in NamesContaining(QueryLower(query))],
                        plys)
        results == [i \in 1..Len(found) |->
                      LET projection ==
                              Filter([j \in 1..Len(projs) |->
                                         projs[j].player_id = found[i].id],
                                     projs)
                      IN  [player |-> found[i],
                           projection |-> IF projection = <<>> THEN None
                                          ELSE projection[1].stats]]
    IN  SliceTo(SortDesc(StoredPointsKeys(results), results), limit)

\* VORService.get_position_vor_rankings(position, league, limit): on an error
\* record the lookup of 'vor_rankings' raises KeyError; on a ranking the
\* first entry raises AttributeError (player.position is a str, without
\* .value); both are caught and [] is returned
PositionVorRankings(plys, projs, position, league, limit) ==
    LET vor_data == VorRankings(plys, projs, league, 14, TRUE, None)
        raises == \/ "vor_rankings" \notin DOMAIN vor_data
                  \/ vor_data.vor_rankings # <<>>
    IN  IF raises THEN <<>>
        ELSE IF \E n \in limit : n # 0
        THEN SliceTo(<<>>, CHOOSE n \in limit : TRUE)
        ELSE <<>>

\* VORService._calculate_vor_differences
CalculateVorDifferences(ranked) ==
    IF Len(ranked) < 2 THEN <<>>
    ELSE [i \in 1..(Len(ranked) - 1) |->
            [player1 |-> ranked[1].player.name,
             player2 |-> ranked[i + 1].player.name,
             vor_difference |-> ranked[1].vor - ranked[i + 1].vor,
             adjusted_vor_difference |->
                 ranked[1].adjusted_vor - ranked[i + 1].adjusted_vor,
             points_difference |->
                 ranked[1].fantasy_points - ranked[i + 1].fantasy_points]]

\* VORService.compare_players_vor(player_ids, league)
ComparePlayers(plys, projs, player_ids, league) ==
    LET vor_data == VorRankings(plys, projs, league, 14, TRUE, None)
    IN  IF "vor_rankings" \notin DOMAIN vor_data
        THEN [error |-> "'vor_rankings'"]
        ELSE LET rankings == vor_data.vor_rankings
                 asked == Filter([i \in 1..Len(rankings) |->
                                     rankings[i].player.id \in Range(player_ids)],
                                 rankings)
                 player_comparisons == SortDesc(AdjustedVorKeys(asked), asked)
             IN  [players |-> player_comparisons,
                  best_value |-> IF player_comparisons # <<>>
                                 THEN player_comparisons[1] ELSE None,
                  vor_differences |->
                      CalculateVorDifferences(player_comparisons)]

\* the fields _create_projection copies from a record
CreateProjectionFields ==
    {"passing_yards", "passing_tds", "interceptions", "rushing_yards",
     "rushing_tds", "receptions", "receiving_yards", "receiving_tds",
     "field_goals", "extra_points", "fantasy_points"}

\* ProjectionService._create_projection
CreateProjection(player_id, data) ==
    [player_id |-> player_id,
     stats |-> [f \in DOMAIN data.stats \cap CreateProjectionFields |->
                  data.stats[f]]]

\* _find_or_create_player without "self.next_player_id += 1"
FindOrCreatePlayerNoIncrement(st, data) ==
    IF \E i \in 1..Len(st.players) :
           NameLower(st.players[i].name) = NameLower(data.name)
    THEN [raised |-> "AttributeError"]
    ELSE [player_id |-> st.next_player_id,
          next_player_id |-> st.next_player_id,
          players |-> Append(st.players,
                             [id |-> st.next_player_id,
                              name |-> data.name,
                              position |-> IF data.position \in Position
                                           THEN data.position ELSE "WR",
                              team |-> data.team])]

\* _find_or_create_player if the stored position were compared, as a string,
\* with the position string of the record: a match is reused and its team
\* updated, anything else creates a player
FindOrCreatePlayerComparing(st, data) ==
    LET matches == {i \in 1..Len(st.players) :
                       /\ NameLower(st.players[i].name) = NameLower(data.name)
                       /\ st.players[i].position = data.position}
    IN  IF matches # {}
        THEN LET m == CHOOSE i \in matches : \A j \in matches : i <= j
             IN  [player_id |-> st.players[m].id,
                  next_player_id |-> st.next_player_id,
                  players |-> [st.players EXCEPT ![m].team =
                                  IF data.team # "" THEN data.team ELSE @]]
        ELSE [player_id |-> st.next_player_id,
              next_player_id |-> st.next_player_id + 1,
              players |-> Append(st.players,
                                 [id |-> st.next_player_id,
                                  name |-> data.name,
                                  position |-> IF data.position \in Position
                                               THEN data.position ELSE "WR",
                                  team |-> data.team])]

\* ProjectionService._find_or_create_player on the state st of the service.
\* Player.Config.use_enum_values stores the position as a plain str, so for
\* the first stored player whose lower-cased name equals the record's,
\* player.position.value raises AttributeError; a record with a new name
\* creates a player (an unknown position becomes WR).
FindOrCreatePlayer(st, data) ==
    IF \E i \in 1..Len(st.players) :
           NameLower(st.players[i].name) = NameLower(data.name)
    THEN [raised |-> "AttributeError"]
    ELSE [player_id |-> st.next_player_id,
          next_player_id |-> st.next_player_id + 1,
          players |-> Append(st.players,
                             [id |-> st.next_player_id,
                              name |-> data.name,
                              position |-> IF data.position \in Position
                                           THEN data.position ELSE "WR",
                              team |-> data.team])]

\* self.projections[player_id] = projection
SetProjection(projs, projection) ==
    IF \E i \in 1..Len(projs) : projs[i].player_id = projection.player_id
    THEN [i \in 1..Len(projs) |->
            IF projs[i].player_id = projection.player_id
            THEN projection ELSE projs[i]]
    ELSE Append(projs, projection)

\* one turn of the loop if a failing record had taken its id before it
\* failed
ProcessRecordKeepingId(st, data) ==
    LET found == FindOrCreatePlayer(st, data)
    IN  IF "raised" \in DOMAIN found
        THEN [st EXCEPT !.errors = Append(@, data.name),
                        !.next_player_id = @ + 1]
        ELSE [players |-> found.players,
              projections |-> SetProjection(st.projections,
                                  CreateProjection(found.player_id, data)),
              next_player_id |-> found.next_player_id,
              players_created |-> st.players_created,
              players_updated |-> st.players_updated + 1,
              projections_created |-> st.projections_created + 1,
              errors |-> st.errors]

\* one turn of the loop of _process_projection_data
ProcessRecord(st, data) ==
    LET found == FindOrCreatePlayer(st, data)
    IN  IF "raised" \in DOMAIN found
        THEN [st EXCEPT !.errors = Append(@, data.name)]
        ELSE LET known == \E i \in 1..Len(found.players) :
                              found.players[i].id = found.player_id
             IN  [players |-> found.players,
                  projections |-> SetProjection(st.projections,
                                      CreateProjection(found.player_id, data)),
                  next_player_id |-> found.next_player_id,
                  players_created |-> st.players_created
                                        + (IF known THEN 0 ELSE 1),
                  players_updated |-> st.players_updated
                                        + (IF known THEN 1 ELSE 0),
                  projections_created |-> st.projections_created + 1,
                  errors |-> st.errors]

\* the loop of _process_projection_data if a failing record ended it
RECURSIVE ProcessProjectionDataAborting(_, _)
ProcessProjectionDataAborting(st, data) ==
    IF data = <<>> THEN st
    ELSE LET after == ProcessRecord(st, Head(data))
         IN  IF after.errors # st.errors THEN after
             ELSE ProcessProjectionDataAborting(after, Tail(data))

\* ProjectionService._process_projection_data: the loop over the records
RECURSIVE ProcessProjectionData(_, _)
ProcessProjectionData(st, data) ==
    IF data = <<>> THEN st
    ELSE ProcessProjectionData(ProcessRecord(st, Head(data)), Tail(data))

\* the formats ProjectionCSVParser._normalize_columns knows
ColumnMappings == {"fantasypros", "yahoo", "espn"}

\* ProjectionService.upload_projections.  The CSV parser is outside the
\* model: parsed_data are the normalized records it returns.  The parser is
\* handed source_type as its format, and raises for a format that is not in
\* ColumnMappings ("auto" is passed through as it is); nothing is stored then.
UploadProjections(parsed_data, source_name, source_type) ==
    IF source_type \notin ColumnMappings
    THEN /\ call' = [op |-> "upload_projections",
                     args |-> [parsed_data |-> parsed_data,
                               source_name |-> source_name,
                               source_type |-> source_type],
                     result |-> [raised |-> "ValueError"],
                     previous |-> None]
         /\ UNCHANGED store
    ELSE LET st == ProcessProjectionData(
                       [players |-> players, projections |-> projections,
                        next_player_id |-> next_player_id,
                        players_created |-> 0, players_updated |-> 0,
                        projections_created |-> 0, errors |-> <<>>],
                       parsed_data)
         IN  /\ players' = st.players
             /\ projections' = st.projections
             /\ next_player_id' = st.next_player_id
             /\ sources' = sources \cup {source_name}
             /\ call' = [op |-> "upload_projections",
                         args |-> [parsed_data |-> parsed_data,
                                   source_name |-> source_name,
                                   source_type |-> source_type],
                         result |-> [players_processed |-> Len(parsed_data),
                                     players_created |-> st.players_created,
                                     players_updated |-> st.players_updated,
                                     projections_created |->
                                         st.projections_created,
                                     errors |-> st.errors,
                                     source |-> source_name],
                         previous |-> None]

\* ProjectionService.clear_projections(source), source an Optional[str]:
\* with a source nothing is cleared
ClearProjections(source) ==
    /\ IF source # {}
       THEN UNCHANGED store
       ELSE /\ players' = <<>>
            /\ projections' = <<>>
            /\ sources' = {}
            /\ next_player_id' = 1
    /\ call' = [op |-> "clear_projections", args |-> [source |-> source],
                result |-> None, previous |-> None]

\* get_projections if it sorted the stored projections in place
GetProjectionsSortingStore(position, team, limit) ==
    /\ call' = [op |-> "get_projections",
                args |-> [position |-> position, team |-> team,
                          limit |-> limit],
                result |-> GetProjectionsFiltered(players, projections,
                                                  position, team, limit),
                previous |-> None]
    /\ projections' =
          SortDesc([i \in 1..Len(projections) |->
                       Get(projections[i].stats, "fantasy_points", 0)],
                   projections)
    /\ UNCHANGED <<players, sources, next_player_id>>

\* ProjectionService.get_projections(position, team, limit)
GetProjectionsQuery(position, team, limit) ==
    /\ call' = [op |-> "get_projections",
                args |-> [position |-> position, team |-> team,
                          limit |-> limit],
                result |-> GetProjectionsFiltered(players, projections,
                                                  position, team, limit),
                previous |-> None]
    /\ UNCHANGED store

\* ProjectionService.get_player_projection(player_id)
GetPlayerProjection(player_id) ==
    /\ call' = [op |-> "get_player_projection",
                args |-> [player_id |-> player_id],
                result |-> GetPlayerProjectionResult(players, projections,
                                                     player_id),
                previous |-> None]
    /\ UNCHANGED store

\* ProjectionService.search_players(query, limit)
SearchPlayers(query, limit) ==
    /\ call' = [op |-> "search_players",
                args |-> [query |-> query, limit |-> limit],
                result |-> SearchPlayersResult(players, projections, query,
                                               limit),
                previous |-> None]
    /\ UNCHANGED store

\* VORService.get_position_vor_rankings(position, league, limit)
GetPositionVorRankings(position, league, limit) ==
    /\ call' = [op |-> "get_position_vor_rankings",
                args |-> [position |-> position, league |-> league,
                          limit |-> limit],
                result |-> PositionVorRankings(players, projections, position,
                                               league, limit),
                previous |-> None]
    /\ UNCHANGED store

\* VORService.compare_players_vor(player_ids, league)
ComparePlayersVor(player_ids, league) ==
    /\ call' = [op |-> "compare_players_vor",
                args |-> [player_ids |-> player_ids, league |-> league],
                result |-> ComparePlayers(players, projections, player_ids,
                                          league),
                previous |-> None]
    /\ UNCHANGED store

\* the requests in flight once request r has been answered
Answered(r) == SubSeq(in_flight, 1, r - 1) \o SubSeq(in_flight, r + 1, Len(in_flight))

\* routes/projections.py upload_projections up to "content = await
\* file.read()": the handler gives the event loop back with the request
\* received and nothing stored yet
ReceiveUpload(parsed_data) ==
    /\ in_flight' = Append(in_flight, [parsed_data |-> parsed_data, applied |-> 0])
    /\ UNCHANGED <<players, projections, sources, next_player_id, call>>

\* the rest of the upload handler if the loop over the records gave the
\* event loop back after every record
UploadHandlerYielding(r) ==
    LET request == in_flight[r]
        st == ProcessRecord(
                  [players |-> players, projections |-> projections,
                   next_player_id |-> next_player_id,
                   players_created |-> 0, players_updated |-> 0,
                   projections_created |-> 0, errors |-> <<>>],
                  request.parsed_data[request.applied + 1])
    IN  /\ players' = st.players
        /\ projections' = st.projections
        /\ next_player_id' = st.next_player_id
        /\ sources' = sources \cup {"uploaded"}
        /\ call' = [op |-> "upload_projections",
                    args |-> [parsed_data |-> request.parsed_data,
                              source_name |-> "uploaded",
                              source_type |-> "fantasypros"],
                    result |-> [players_processed |-> request.applied + 1,
                                errors |-> st.errors],
                    previous |-> None]
        /\ in_flight' = IF request.applied + 1 = Len(request.parsed_data)
                        THEN Answered(r)
                        ELSE [in_flight EXCEPT ![r].applied = @ + 1]

\* routes/projections.py upload_projections after the await: the call of
\* projection_service.upload_projections and the answer.  The service method
\* is synchronous and the handler has no further await, so the event loop
\* runs nothing else until the whole batch has been through the loop.
UploadHandler(r) ==
    /\ UploadProjections(in_flight[r].parsed_data, "uploaded", "fantasypros")
    /\ in_flight' = Answered(r)

-----------------------------------------------------------------------------
(* SpecVor: the ranking as a function of the store.  The store is drawn     *)
(* from the stores an ingestion of at most MaxRanked records of the kinds   *)
(* below leaves behind (ingested in the order of the kinds), and the        *)
(* ranking is asked for with the default rosters and with custom rosters.   *)

MaxRanked == 4

MaxSlots == 2

MaxFlex == 2

\* normalized records as the CSV importer hands them over: a position and
\* the stats of the row (stats in tenths of their unit)
SampleKinds ==
    << [position |-> "QB", stats |-> [passing_yards |-> Tenths(7500)]],
       [position |-> "QB", stats |-> [passing_yards |-> Tenths(5000)]],
       [position |-> "RB", stats |-> [rushing_yards |-> Tenths(2500)]],
       [position |-> "RB", stats |-> [rushing_yards |-> Tenths(2000)]],
       [position |-> "WR", stats |-> [receiving_yards |-> Tenths(2200)]],
       [position |-> "TE", stats |-> [receiving_yards |-> Tenths(1500)]],
       [position |-> "K", stats |-> [extra_points |-> Tenths(125)]],
       [position |-> "K", stats |-> << >>],
       [position |-> "DST", stats |-> << >>],
       [position |-> "DST", stats |-> [interceptions |-> Tenths(10)]] >>

\* the name of the i-th player of a drawn store
SampleName(i) == <<"P", i>>

\* the kinds of the players of a drawn store, in ingestion order
SampleStores ==
    {s \in UNION {[1..k -> 1..Len(SampleKinds)] : k \in 0..MaxRanked} :
        \A i \in 1..Len(s) - 1 : s[i] <= s[i + 1]}

\* a custom roster with n slots for every concrete position, and f FLEX
\* slots (no FLEX key when f = 0)
UniformRoster(n, f) ==
    [position \in {"QB", "RB", "WR", "TE", "K", "DST"}
                  \cup (IF f > 0 THEN {"FLEX"} ELSE {}) |->
        IF position = "FLEX" THEN f ELSE n]

VorCustomRosters ==
    {UniformRoster(n, f) : n \in 1..MaxSlots, f \in 0..MaxFlex}
    \cup {[RB |-> 0, FLEX |-> f] : f \in 1..MaxFlex}
    \cup {[QB |-> -1, RB |-> 1]}

VorNumTeams == {1, 14}

InitVor ==
    /\ \E s \in SampleStores :
        /\ players = [i \in 1..Len(s) |->
                        [id |-> i, name |-> SampleName(i),
                         position |-> SampleKinds[s[i]].position, team |-> ""]]
        /\ projections = [i \in 1..Len(s) |->
                            [player_id |-> i, stats |-> SampleKinds[s[i]].stats]]
        /\ next_player_id = Len(s) + 1
        /\ sources = IF Len(s) > 0 THEN {"uploaded"} ELSE {}
    /\ call = NoCall
    /\ in_flight = <<>>

NextVor ==
    /\ call = NoCall
    /\ UNCHANGED in_flight
    /\ \/ \E num_teams \in VorNumTeams, include_flex \in BOOLEAN :
             CalculateVorRankings(None, num_teams, include_flex, None)
       \/ \E custom_roster \in VorCustomRosters :
             CalculateVorRankings(None, 12, TRUE, custom_roster)

SpecVor == InitVor /\ [][NextVor]_vars

-----------------------------------------------------------------------------
(* What the claims read of the last call *)

\* the last call was calculate_vor_rankings and returned rankings
Ranked ==
    /\ call.op = "calculate_vor_rankings"
    /\ "vor_rankings" \in DOMAIN call.result

\* the entries of position_rankings of the last result for a position
RankedList(position) == Get(call.result.position_rankings, position, << >>)

ConcretePositions == {"QB", "RB", "WR", "TE", "K", "DST"}

-----------------------------------------------------------------------------
(* C1 *)

\* C1: for every concrete (non-FLEX) position P of the roster with
\* N = roster[P] >= 1, the replacement level of P is the points of the N-th
\* player of P's points-descending list when the list has at least N
\* players, the points of its last player when it has 1..N-1 players, and 0
\* when P has no players.
C1_ReplacementLevelRule ==
    Ranked =>
        \A P \in DOMAIN call.result.roster_construction \ {"FLEX"} :
            LET N == call.result.roster_construction[P]
                L == RankedList(P)
                level == call.result.replacement_levels[P]
            IN  N >= 1 =>
                    /\ Len(L) >= N => level = L[N].fantasy_points
                    /\ (Len(L) >= 1 /\ Len(L) < N) =>
                            level = L[Len(L)].fantasy_points
                    /\ Len(L) = 0 => level = 0

\* C1 witness: one ranking in which a position with N = 2 has two players
\* with different points (the level is the second one's), another position
\* has fewer players than slots, and a third has none
C1_Witness ==
    /\ Ranked
    /\ \E P, Q, R \in DOMAIN call.result.roster_construction \ {"FLEX"} :
        /\ call.result.roster_construction[P] = 2
        /\ Len(RankedList(P)) >= 2
        /\ RankedList(P)[1].fantasy_points > RankedList(P)[2].fantasy_points
        /\ call.result.replacement_levels[P] = RankedList(P)[2].fantasy_points
        /\ Len(RankedList(Q)) = 1
        /\ call.result.roster_construction[Q] = 2
        /\ call.result.replacement_levels[Q] = RankedList(Q)[1].fantasy_points
        /\ RankedList(Q)[1].fantasy_points # 0
        /\ Len(RankedList(R)) = 0
        /\ call.result.replacement_levels[R] = 0

-----------------------------------------------------------------------------
(* C2 *)

\* the overflow pool as the claim defines it: the RB, WR and TE players of
\* the last result whose position rank exceeds their position's slots (a
\* position the roster does not name has no slots)
OverflowPool ==
    UNION {{RankedList(position)[i] : i \in 1..Len(RankedList(position))} :
              position \in {"RB", "WR", "TE"}}
    \ {e \in UNION {{RankedList(position)[i] : i \in 1..Len(RankedList(position))} :
                       position \in {"RB", "WR", "TE"}} :
          e.position_rank <= Get(call.result.roster_construction,
                                 e.player.position, 0)}

\* v is the n-th highest points value of the set of entries S
NthHighest(S, n, v) ==
    /\ \E e \in S : e.fantasy_points = v
    /\ Cardinality({e \in S : e.fantasy_points > v}) < n
    /\ Cardinality({e \in S : e.fantasy_points >= v}) >= n

\* C2: the FLEX candidates are exactly the overflow pool (no player inside
\* their own position's allocation), ordered by points descending, and the
\* FLEX level is the points of the roster['FLEX']-th pool entry when the pool
\* has that many entries, of the last pool entry when it has fewer, and 0
\* when the pool is empty.
C2_FlexLevelFromOverflow ==
    (Ranked /\ "FLEX" \in DOMAIN call.result.roster_construction) =>
        LET F == call.result.roster_construction["FLEX"]
            level == call.result.replacement_levels["FLEX"]
            pool == FlexCandidates(call.result.position_rankings,
                                   call.result.roster_construction)
        IN  /\ Range(pool) = OverflowPool
            /\ Len(pool) = Cardinality(OverflowPool)
            /\ \A i \in 1..Len(pool) - 1 :
                    pool[i].fantasy_points >= pool[i + 1].fantasy_points
            /\ F >= 1 =>
                /\ Cardinality(OverflowPool) >= F =>
                        NthHighest(OverflowPool, F, level)
                /\ (OverflowPool # {} /\ Cardinality(OverflowPool) < F) =>
                        NthHighest(OverflowPool, Cardinality(OverflowPool), level)
                /\ OverflowPool = {} => level = 0

\* C2 witness: two FLEX slots, a pool with overflow players of two positions,
\* a flex-eligible player left out because it is inside its position's
\* allocation, and a FLEX level that is the second pool entry's points, below
\* the first's
C2_Witness ==
    /\ Ranked
    /\ "FLEX" \in DOMAIN call.result.roster_construction
    /\ call.result.roster_construction["FLEX"] = 2
    /\ \E a, b \in OverflowPool :
        /\ a.player.position # b.player.position
        /\ a.fantasy_points > b.fantasy_points
        /\ call.result.replacement_levels["FLEX"] = b.fantasy_points
    /\ \E position \in {"RB", "WR", "TE"} :
        /\ Len(RankedList(position)) >= 1
        /\ RankedList(position)[1] \notin OverflowPool

-----------------------------------------------------------------------------
(* C3 *)

FlexEligiblePositions == {"RB", "WR", "TE"}

\* C3: every ranked player's VOR is points - level[position] when the
\* position is not flex-eligible or there is no FLEX level, and the larger of
\* points - level[position] and points - level['FLEX'] when the position is
\* RB, WR or TE and a FLEX level exists; a flex-eligible player's VOR is
\* never below the positional one.  (A position the levels do not name has
\* level 0.)
C3_VorFormula ==
    Ranked =>
        \A i \in 1..Len(call.result.vor_rankings) :
            LET e == call.result.vor_rankings[i]
                levels == call.result.replacement_levels
                raw == e.fantasy_points - Get(levels, e.player.position, 0)
            IN  IF e.player.position \in FlexEligiblePositions
                   /\ "FLEX" \in DOMAIN levels
                THEN /\ e.vor \in {raw, e.fantasy_points - levels["FLEX"]}
                     /\ e.vor >= raw
                     /\ e.vor >= e.fantasy_points - levels["FLEX"]
                ELSE e.vor = raw

\* C3 witness: a ranking with a flex-eligible player whose FLEX baseline
\* gives it strictly more than the positional one, and a player of a
\* position that is not flex-eligible with a non-zero VOR
C3_Witness ==
    /\ Ranked
    /\ "FLEX" \in DOMAIN call.result.replacement_levels
    /\ \E i, j \in 1..Len(call.result.vor_rankings) :
        LET e == call.result.vor_rankings[i]
            q == call.result.vor_rankings[j]
            levels == call.result.replacement_levels
        IN  /\ e.player.position \in FlexEligiblePositions
            /\ e.vor = e.fantasy_points - levels["FLEX"]
            /\ e.vor > e.fantasy_points - levels[e.player.position]
            /\ q.player.position \notin FlexEligiblePositions
            /\ q.vor = q.fantasy_points - levels[q.player.position]
            /\ q.vor # 0

-----------------------------------------------------------------------------
(* C4 *)

\* the default multipliers as the claim lists them, in tenths
ClaimedMultiplier(position) ==
    CASE position = "QB" -> 10
      [] position \in {"RB", "WR"} -> 12
      [] position = "TE" -> 11
      [] position \in {"K", "DST"} -> 8

\* C4: every ranked player's adjusted VOR is VOR times the multiplier of its
\* position: 1.0 for QB, 1.2 for RB and WR, 1.1 for TE, 0.8 for K and DST.
C4_ScarcityMultipliers ==
    Ranked =>
        \A i \in 1..Len(call.result.vor_rankings) :
            LET e == call.result.vor_rankings[i]
            IN  e.adjusted_vor = e.vor * ClaimedMultiplier(e.player.position)

-----------------------------------------------------------------------------
(* C5 *)

\* C5: the value tier of every ranked player is the tier of its adjusted
\* VOR with inclusive lower bounds: >= 100 Elite, 50 <= . < 100 High,
\* 20 <= . < 50 Medium, 0 <= . < 20 Low, < 0 Below Replacement.
C5_ValueTiers ==
    Ranked =>
        \A i \in 1..Len(call.result.vor_rankings) :
            LET a == call.result.vor_rankings[i].adjusted_vor
                tier == call.result.vor_rankings[i].value_tier
            IN  /\ a >= Thousandths(Pts(100)) => tier = "Elite"
                /\ (Thousandths(Pts(50)) <= a /\ a < Thousandths(Pts(100)))
                        => tier = "High"
                /\ (Thousandths(Pts(20)) <= a /\ a < Thousandths(Pts(50)))
                        => tier = "Medium"
                /\ (0 <= a /\ a < Thousandths(Pts(20))) => tier = "Low"
                /\ a < 0 => tier = "Below Replacement"

\* C5 witness: one ranking with a player at exactly 100 adjusted VOR in
\* Elite, a player at exactly 0 in Low and a player below 0 in Below
\* Replacement
C5_Witness ==
    /\ Ranked
    /\ \E i, j, k \in 1..Len(call.result.vor_rankings) :
        /\ call.result.vor_rankings[i].adjusted_vor = Thousandths(Pts(100))
        /\ call.result.vor_rankings[i].value_tier = "Elite"
        /\ call.result.vor_rankings[j].adjusted_vor = 0
        /\ call.result.vor_rankings[j].value_tier = "Low"
        /\ call.result.vor_rankings[k].adjusted_vor < 0
        /\ call.result.vor_rankings[k].value_tier = "Below Replacement"

-----------------------------------------------------------------------------
(* Spec: the service.  The store starts empty; records are uploaded in      *)
(* batches, the store is cleared, and the ranking is asked for.             *)

MaxPlayers == 3

\* normalized records as the CSV importer hands them over
UploadRecords ==
    { [name |-> "Ann", position |-> "QB", team |-> "KC",
       stats |-> [passing_yards |-> Tenths(7500)]],
      [name |-> "ANN", position |-> "QB", team |-> "BUF",
       stats |-> [passing_yards |-> Tenths(5000)]],
      [name |-> "Bob", position |-> "RB", team |-> "",
       stats |-> [rushing_yards |-> Tenths(2500)]],
      [name |-> "Cy", position |-> "WR", team |-> "",
       stats |-> [receiving_yards |-> Tenths(2500)]],
      [name |-> "Dee", position |-> "XX", team |-> "",
       stats |-> [rushing_yards |-> Tenths(2200)]],
      [name |-> "Eve", position |-> "K", team |-> "",
       stats |-> [extra_points |-> Tenths(125),
                  fantasy_points |-> Pts(999)]],
      [name |-> "Fay", position |-> "FLEX", team |-> "",
       stats |-> [receptions |-> Tenths(60), interceptions |-> Tenths(10)]] }

\* the uploads: one record, or two different records
UploadBatches ==
    {<<r>> : r \in UploadRecords}
    \cup {p \in {<<r, q>> : r \in UploadRecords, q \in UploadRecords} :
             p[1] # p[2]}

\* an object handed over as the league that has no scoring_rules
LeagueWithoutRules == [num_teams |-> 12, scoring_type |-> "ppr"]

\* a league whose scoring_rules dict was given an "interception" entry that
\* is not a number after the League was built
LeagueBadRule ==
    [num_teams |-> 12, scoring_type |-> "ppr",
     scoring_rules |->
        [k \in (DOMAIN LeagueDefaultScoringRules \ {"interception"})
                  \cup {"non_numeric"} |->
            IF k = "non_numeric" THEN {"interception"}
            ELSE LeagueDefaultScoringRules[k]]]

\* the arguments the ranking is asked for with
RankingArgs ==
    { [league |-> LeagueWithoutRules, num_teams |-> 12, include_flex |-> TRUE,
       custom_roster |-> None],
      [league |-> LeagueBadRule, num_teams |-> 12, include_flex |-> TRUE,
       custom_roster |-> None],
      [league |-> None, num_teams |-> 14, include_flex |-> TRUE,
       custom_roster |-> None],
      [league |-> None, num_teams |-> 14, include_flex |-> FALSE,
       custom_roster |-> None],
      [league |-> League(12, "standard"), num_teams |-> 12,
       include_flex |-> TRUE, custom_roster |-> None],
      [league |-> None, num_teams |-> 12, include_flex |-> TRUE,
       custom_roster |-> [QB |-> 1, RB |-> 1, WR |-> 1, TE |-> 1, K |-> 1,
                          DST |-> 1, FLEX |-> 1]] }

Init ==
    /\ players = <<>>
    /\ projections = <<>>
    /\ sources = {}
    /\ next_player_id = 1
    /\ call = NoCall
    /\ in_flight = <<>>

Next ==
    /\ UNCHANGED in_flight
    /\ \/ \E parsed_data \in UploadBatches :
             /\ Len(players) + Len(parsed_data) <= MaxPlayers
             /\ UploadProjections(parsed_data, "uploaded", "fantasypros")
       \/ UploadProjections(<<>>, "uploaded", "auto")
       \/ \E source \in {{}, {"uploaded"}} : ClearProjections(source)
       \/ \E a \in RankingArgs :
             CalculateVorRankings(a.league, a.num_teams, a.include_flex,
                                  a.custom_roster)

Spec == Init /\ [][Next]_vars

\* the ranking a ranking call returned
Returned == call.result.vor_rankings

\* the last operation was a ranking call that returned rankings
RankingReturned ==
    /\ call.op = "calculate_vor_rankings"
    /\ "vor_rankings" \in DOMAIN call.result

\* C6: for a non-empty store with K players, the vor_rankings that
\* calculate_vor_rankings returns hold each stored player exactly once, are
\* ordered by adjusted VOR non-increasing, and their overall_rank values are
\* exactly 1..K without duplicates or gaps, ties in adjusted VOR included.
C6_RankingsCoverStoreInOrder ==
    (call.op = "calculate_vor_rankings" /\ players # <<>>) =>
        /\ RankingReturned
        /\ Len(Returned) = Len(players)
        /\ \A i \in 1..Len(players) :
              Cardinality({j \in 1..Len(Returned) :
                              Returned[j].player = players[i]}) = 1
        /\ \A j \in 1..Len(Returned) - 1 :
              Returned[j].adjusted_vor >= Returned[j + 1].adjusted_vor
        /\ {Returned[j].overall_rank : j \in 1..Len(Returned)}
              = 1..Len(players)
        /\ \A j \in 1..Len(Returned) : Returned[j].overall_rank = j

\* a ranking of a full store with a tie in adjusted VOR and a strict step
C6_Witness ==
    /\ RankingReturned
    /\ Len(players) = MaxPlayers
    /\ \E j \in 1..Len(Returned) - 1 :
          Returned[j].adjusted_vor = Returned[j + 1].adjusted_vor
    /\ \E j \in 1..Len(Returned) - 1 :
          Returned[j].adjusted_vor > Returned[j + 1].adjusted_vor

-----------------------------------------------------------------------------
(* SpecDraft: the draft targets as a function of the store and the pick.    *)
(* The store is one an upload of differently named records leaves behind,   *)
(* empty, small, or larger than the 20 players the grouping looks at.       *)

MaxDraftPlayers == 22

MaxRound == 3

\* the record of the i-th player of a drawn store: the kinds in turn
DraftKind(i) == SampleKinds[((i - 1) % Len(SampleKinds)) + 1]

DraftStoreSizes == {0, 3, MaxDraftPlayers}

DraftNumTeams == {1, 2, 12}

InitDraft ==
    /\ \E k \in DraftStoreSizes :
        /\ players = [i \in 1..k |->
                        [id |-> i, name |-> SampleName(i),
                         position |-> DraftKind(i).position, team |-> ""]]
        /\ projections = [i \in 1..k |->
                            [player_id |-> i, stats |-> DraftKind(i).stats]]
        /\ next_player_id = k + 1
        /\ sources = IF k > 0 THEN {"uploaded"} ELSE {}
    /\ call = NoCall
    /\ in_flight = <<>>

NextDraft ==
    /\ call = NoCall
    /\ UNCHANGED in_flight
    /\ \E num_teams \in DraftNumTeams, round_number \in 1..MaxRound :
         \E draft_position \in 1..num_teams,
            league \in {None, League(num_teams, "ppr")} :
             GetDraftTargetsByVor(round_number, draft_position, league,
                                  num_teams)

SpecDraft == InitDraft /\ [][NextDraft]_vars

\* the draft targets were asked for and returned
TargetsReturned ==
    /\ call.op = "get_draft_targets_by_vor"
    /\ "overall_pick" \in DOMAIN call.result

\* the k-th team to pick in a round of a snake draft: the slots in order in
\* odd rounds, in reverse order in even rounds
SlotOfTurn(round_number, k, num_teams) ==
    IF round_number % 2 = 1 THEN k ELSE num_teams - k + 1

\* C8: for round >= 1, numTeams >= 1 and slot in 1..numTeams,
\* get_draft_targets_by_vor computes overall_pick = (round-1)*numTeams + slot
\* in odd rounds and (round-1)*numTeams + (numTeams - slot + 1) in even
\* rounds; with 12 teams round 1 slot 1 gives 1, round 2 slot 1 gives 24 and
\* round 2 slot 12 gives 13; the team picking last in an odd round picks
\* first in the next round.
C8_SnakeDraftPick ==
    TargetsReturned =>
        LET a == call.args
            n == a.num_teams
            first_of_round == (a.round_number - 1) * n + 1
        IN  /\ call.result.overall_pick \in first_of_round..(first_of_round + n - 1)
            /\ SlotOfTurn(a.round_number,
                          call.result.overall_pick - first_of_round + 1, n)
                  = a.draft_position
            /\ (a.round_number % 2 = 1) =>
                  call.result.overall_pick
                      = (a.round_number - 1) * n + a.draft_position
            /\ (a.round_number % 2 = 0) =>
                  call.result.overall_pick
                      = (a.round_number - 1) * n + (n - a.draft_position + 1)
            /\ (n = 12 /\ a.round_number = 1 /\ a.draft_position = 1) =>
                  call.result.overall_pick = 1
            /\ (n = 12 /\ a.round_number = 2 /\ a.draft_position = 1) =>
                  call.result.overall_pick = 24
            /\ (n = 12 /\ a.round_number = 2 /\ a.draft_position = 12) =>
                  call.result.overall_pick = 13
            /\ (a.round_number % 2 = 1 /\ a.draft_position = n) =>
                  /\ call.result.overall_pick = a.round_number * n
                  /\ OverallPick(a.round_number + 1, a.draft_position, n)
                        = call.result.overall_pick + 1

\* round 2 of a 12-team draft, asked for from slot 1
C8_Witness ==
    /\ TargetsReturned
    /\ call.args.num_teams = 12
    /\ call.args.round_number = 2
    /\ call.args.draft_position = 1
    /\ call.result.overall_pick = 24

\* the ranking the draft targets were taken from
RankingOfTargets ==
    VorRankings(players, projections, call.args.league, call.args.num_teams,
                TRUE, None).vor_rankings

\* the entries of a ranking from overall rank lo on
FromRank(rankings, lo) ==
    IF lo > Len(rankings) THEN <<>>
    ELSE SubSeq(rankings, Max(lo, 1), Len(rankings))

\* C9: in get_draft_targets_by_vor the likely-available list is exactly the
\* ranked players with overall_rank >= overall_pick - 5, in overall-rank
\* order; top_targets is the first 10 entries of that list;
\* targets_by_position partitions the first 20 entries of that list by
\* position, each group in overall-rank order, so every top target also
\* appears in its position's group.
C9_DraftTargetLists ==
    TargetsReturned =>
        \A ranking \in {RankingOfTargets} :
        \A available \in {FromRank(ranking, call.result.overall_pick - 5)} :
        \A first10 \in {SubSeq(available, 1, Min(10, Len(available)))} :
        \A first20 \in {SubSeq(available, 1, Min(20, Len(available)))} :
        \A groups \in {call.result.targets_by_position} :
            /\ \A i \in 1..Len(available) :
                  available[i].overall_rank >= call.result.overall_pick - 5
            /\ Len(available)
                  = Cardinality({i \in 1..Len(ranking) :
                        ranking[i].overall_rank
                            >= call.result.overall_pick - 5})
            /\ call.result.top_targets = first10
            /\ \A i \in 1..Len(first20) :
                  /\ first20[i].player.position \in DOMAIN groups
                  /\ \A position \in DOMAIN groups :
                        Cardinality({j \in 1..Len(groups[position]) :
                                        groups[position][j] = first20[i]})
                          = IF position = first20[i].player.position
                            THEN 1 ELSE 0
            /\ \A position \in DOMAIN groups :
                  /\ groups[position] # <<>>
                  /\ \A j \in 1..Len(groups[position]) :
                        /\ groups[position][j] \in Range(first20)
                        /\ groups[position][j].player.position = position
                  /\ \A j \in 1..Len(groups[position]) - 1 :
                        groups[position][j].overall_rank
                            < groups[position][j + 1].overall_rank
            /\ \A i \in 1..Len(first10) :
                  first10[i] \in Range(groups[first10[i].player.position])

\* more than 20 players are likely available, some are not, and the pick is
\* late enough for the buffer of 5 to cut the top of the ranking off
C9_Witness ==
    /\ TargetsReturned
    /\ call.result.overall_pick > 6
    /\ Len(FromRank(RankingOfTargets, call.result.overall_pick - 5)) > 20
    /\ Len(call.result.top_targets) = 10
    /\ \E position \in DOMAIN call.result.targets_by_position :
          Len(call.result.targets_by_position[position]) > 1

-----------------------------------------------------------------------------
(* SpecScore: the scoring engine as a function of the projection and the    *)
(* rules it is asked to score with.                                         *)

MaxPointsAllowed == 36

\* custom rules that give every points-allowed band a value of its own
BandRules ==
    [points_allowed_0 |-> Pts(12), points_allowed_1_6 |-> Pts(8),
     points_allowed_7_13 |-> Pts(5), points_allowed_14_20 |-> Pts(2),
     points_allowed_21_27 |-> Pts(1), points_allowed_28_34 |-> Pts(-2),
     points_allowed_35_plus |-> Pts(-5)]

\* custom rules that configure some of the bands only
PartialBandRules ==
    [points_allowed_1_6 |-> Pts(8), points_allowed_14_20 |-> Pts(2),
     points_allowed_35_plus |-> Pts(-5)]

\* the (league, scoring_rules) pairs the engine is asked to score with
ScoreRuleChoices ==
    {[league |-> None, scoring_rules |-> r] :
        r \in {None, StandardRules, PprRules, HalfPprRules, BandRules,
               PartialBandRules}}
    \cup {[league |-> League(12, t), scoring_rules |-> None] :
            t \in ScoringType}
    \cup {[league |-> CreateCustomLeague("ppr", [points_allowed_0 |-> Pts(1)]),
           scoring_rules |-> None]}

\* the stat fields calculate_fantasy_points reads, points_allowed apart
ScoredFields ==
    {LinearCategories[i][1] : i \in 1..Len(LinearCategories)}
    \cup {"field_goals"}

\* stat values, in tenths: half a unit, whole units, and an explicit zero
ScoreStatValues == {0, 5, Tenths(10), Tenths(25)}

\* defenses with a whole number of points allowed, projections with one
\* stat, and projections with two
ScoreProjections ==
    {[points_allowed |-> Tenths(p)] : p \in 0..MaxPointsAllowed}
    \cup {[f \in {field} |-> v] : field \in ScoredFields, v \in ScoreStatValues}
    \cup {[passing_yards |-> Tenths(2505), field_goals |-> v] :
             v \in ScoreStatValues}
    \cup {[receptions |-> v, receiving_yards |-> Tenths(801)] :
             v \in ScoreStatValues}

InitScore ==
    /\ players = <<>>
    /\ projections = <<>>
    /\ sources = {}
    /\ next_player_id = 1
    /\ call = NoCall
    /\ in_flight = <<>>

NextScore ==
    /\ call = NoCall
    /\ UNCHANGED in_flight
    /\ \E projection \in ScoreProjections, c \in ScoreRuleChoices :
          \/ ScoreProjection(projection, c.league, c.scoring_rules)
          \/ ScoringBreakdown(projection, c.league, c.scoring_rules)

SpecScore == InitScore /\ [][NextScore]_vars

\* the bands of points allowed, as whole points
BandRange(band) ==
    IF band = "points_allowed_0" THEN {0}
    ELSE IF band = "points_allowed_1_6" THEN 1..6
    ELSE IF band = "points_allowed_7_13" THEN 7..13
    ELSE IF band = "points_allowed_14_20" THEN 14..20
    ELSE IF band = "points_allowed_21_27" THEN 21..27
    ELSE IF band = "points_allowed_28_34" THEN 28..34
    ELSE {p \in 0..MaxPointsAllowed : p >= 35}

Bands ==
    {"points_allowed_0", "points_allowed_1_6", "points_allowed_7_13",
     "points_allowed_14_20", "points_allowed_21_27", "points_allowed_28_34",
     "points_allowed_35_plus"}

\* a defense with nothing but points allowed was scored
PointsAllowedScored ==
    /\ call.op = "calculate_fantasy_points"
    /\ DOMAIN call.args.projection = {"points_allowed"}

\* C10: for every rule set and every whole number p >= 0 of points allowed,
\* the points-allowed score is the value the rules configure for exactly one
\* band (0 when they configure none), the band of the fixed banding 0, 1..6,
\* 7..13, 14..20, 21..27, 28..34, >= 35; p = 6 selects the 1-6 band, p = 7
\* the 7-13 band, and the boundaries are the same for every rule set.
C10_PointsAllowedBands ==
    PointsAllowedScored =>
        \A rules \in {RulesFor(call.args.league, call.args.scoring_rules)} :
        \E p \in 0..MaxPointsAllowed :
            /\ call.args.projection.points_allowed = Tenths(p)
            /\ Cardinality({band \in Bands : p \in BandRange(band)}) = 1
            /\ \A band \in Bands :
                  p \in BandRange(band) => call.result = Get(rules, band, 0)
            /\ p = 6 => call.result = Get(rules, "points_allowed_1_6", 0)
            /\ p = 7 => call.result = Get(rules, "points_allowed_7_13", 0)

\* 7 points allowed scored with rules that tell the bands apart
C10_Witness ==
    /\ PointsAllowedScored
    /\ call.args.scoring_rules = BandRules
    /\ call.args.projection.points_allowed = Tenths(7)
    /\ call.result = BandRules["points_allowed_7_13"]
    /\ call.result # BandRules["points_allowed_1_6"]

\* the linear categories as the scoring contract lists them: the categories
\* of the code and the flat field goals, each with its coefficient's key
ClaimedCategories ==
    LinearCategories \o << <<"field_goals", "fg_made">> >>

\* the sum, over the first n categories, of stat * coefficient for the stats
\* the projection has, a coefficient the rules lack counting as 0; in
\* thousandths
RECURSIVE ClaimedLinearSum(_, _, _)
ClaimedLinearSum(projection, rules, n) ==
    IF n = 0 THEN 0
    ELSE ClaimedLinearSum(projection, rules, n - 1)
         + (IF ClaimedCategories[n][1] \in DOMAIN projection
            THEN projection[ClaimedCategories[n][1]]
                 * Get(rules, ClaimedCategories[n][2], 0)
            ELSE 0)

\* a projection without points allowed was scored
LinearScored ==
    /\ call.op = "calculate_fantasy_points"
    /\ "points_allowed" \notin DOMAIN call.args.projection

\* C11: for every rule set and every projection without points allowed,
\* calculate_fantasy_points returns (rounded to two decimals) the sum over
\* the linear categories present in the projection, flat field goals
\* included, of stat * the rule set's coefficient, a category whose
\* coefficient the rule set lacks contributing 0.
C11_LinearSum ==
    LinearScored =>
        \A rules \in {RulesFor(call.args.league, call.args.scoring_rules)} :
            call.result = Round2(ClaimedLinearSum(call.args.projection, rules,
                                                  Len(ClaimedCategories)))

\* the stats stored for the player of a ranking entry
StoredStats(entry) ==
    LET found == Filter([i \in 1..Len(projections) |->
                            projections[i].player_id = entry.player.id],
                        projections)
    IN  found[1].stats

\* C12: a failure raised while calculate_fantasy_points computes a
\* projection's points is swallowed and the call returns 0.0, so a ranking
\* that contains such a player still completes and ranks that player with 0
\* points.
C12_ScoringFailureGivesZero ==
    (/\ call.op = "calculate_vor_rankings"
     /\ players # <<>>
     /\ call.args.league \in {LeagueWithoutRules, LeagueBadRule}) =>
        /\ RankingReturned
        /\ Len(Returned) = Len(players)
        /\ \A j \in 1..Len(Returned) :
              \/ /\ call.args.league = LeagueBadRule
                 /\ ~Truthy(StoredStats(Returned[j]), "interceptions")
              \/ Returned[j].fantasy_points = 0

\* a ranking in which scoring one player failed after part of its total was
\* added, next to a player that was scored
C12_Witness ==
    /\ RankingReturned
    /\ call.args.league = LeagueBadRule
    /\ \E j \in 1..Len(Returned) :
          /\ Truthy(StoredStats(Returned[j]), "interceptions")
          /\ Truthy(StoredStats(Returned[j]), "receptions")
          /\ Returned[j].fantasy_points = 0
    /\ \E j \in 1..Len(Returned) : Returned[j].fantasy_points > 0

\* a stored player has the record's name, compared without case, and its
\* position
SamePlayer(player, data) ==
    /\ NameLower(player.name) = NameLower(data.name)
    /\ player.position = data.position

\* the projection stored under a player id in the projections projs
ProjectionOf(projs, player_id) ==
    Filter([i \in 1..Len(projs) |-> projs[i].player_id = player_id], projs)

\* C13: ingesting a record whose name (compared case-insensitively) and
\* position equal those of a stored player reuses that player's id, creates
\* no new player, replaces that player's stored projection with the new one
\* and updates the team when the record carries a different non-empty team;
\* the number of stored players is unchanged.  Stated for uploads of one
\* record.
C13_ReingestUpdatesPlayer ==
    [][\A i \in 1..Len(players) :
          (/\ call'.op = "upload_projections"
           /\ "errors" \in DOMAIN call'.result
           /\ Len(call'.args.parsed_data) = 1
           /\ SamePlayer(players[i], call'.args.parsed_data[1])) =>
              /\ Len(players') = Len(players)
              /\ next_player_id' = next_player_id
              /\ players'[i].id = players[i].id
              /\ players'[i].team =
                    IF call'.args.parsed_data[1].team # ""
                    THEN call'.args.parsed_data[1].team
                    ELSE players[i].team
              /\ ProjectionOf(projections', players[i].id)
                    = <<CreateProjection(players[i].id,
                                         call'.args.parsed_data[1])>>
              /\ call'.result.errors = <<>>]_vars

\* C14 as claimed: player ids are unique within a process lifetime; over any
\* sequence of upload_projections and clear_projections calls an id that was
\* handed out (an id below next_player_id) is never handed out again: it
\* stays below the counter the next id is taken from.
C14_IdsNeverHandedOutAgain ==
    [][\A id \in 1..MaxPlayers :
          (next_player_id > id) => (next_player_id' > id)]_vars

\* C14 as amended: the players stored at one time have different ids, all of
\* them below next_player_id, and the counter goes back only when
\* clear_projections empties the store, after which ids start at 1 again.
C14_StoredIdsUnique ==
    /\ [](/\ \A i, j \in 1..Len(players) :
                i # j => players[i].id # players[j].id
          /\ \A i \in 1..Len(players) :
                players[i].id \in 1..(next_player_id - 1))
    /\ [][(next_player_id' < next_player_id) =>
            /\ call'.op = "clear_projections"
            /\ call'.args.source = {}
            /\ players' = <<>>
            /\ next_player_id' = 1]_vars

\* a full store, filled by an upload of two records on top of one player
C14_Witness ==
    /\ call.op = "upload_projections"
    /\ Len(players) = MaxPlayers
    /\ "players_processed" \in DOMAIN call.result
    /\ call.result.players_processed = 2
    /\ call.result.errors = <<>>
    /\ next_player_id = MaxPlayers + 1

\* the state _process_projection_data starts from
LoopStart ==
    [players |-> players, projections |-> projections,
     next_player_id |-> next_player_id,
     players_created |-> 0, players_updated |-> 0,
     projections_created |-> 0, errors |-> <<>>]

\* C15: within one ingestion batch a record whose processing fails does not
\* abort the batch: every other record, before and after it, is ingested
\* exactly as if the failing record were absent, and the errors list of the
\* summary has one entry for each failed record.
C15_FailuresIsolatedPerRecord ==
    [][(call'.op = "upload_projections" /\ "errors" \in DOMAIN call'.result) =>
          \A batch \in {call'.args.parsed_data} :
          \E keep \in SUBSET (1..Len(batch)) :
          \A kept \in {Filter([i \in 1..Len(batch) |-> i \in keep], batch)} :
          \A dropped \in {Filter([i \in 1..Len(batch) |-> i \notin keep],
                                 batch)} :
          \A alone \in {ProcessProjectionData(LoopStart, kept)} :
              /\ alone.errors = <<>>
              /\ players' = alone.players
              /\ projections' = alone.projections
              /\ next_player_id' = alone.next_player_id
              /\ call'.result.projections_created = Len(kept)
              /\ call'.result.errors
                    = [i \in 1..Len(dropped) |-> dropped[i].name]
              /\ call'.result.players_processed = Len(batch)]_vars

\* an upload of two records in which the first failed and the second was
\* ingested
C15_Witness ==
    /\ call.op = "upload_projections"
    /\ "errors" \in DOMAIN call.result
    /\ Len(call.args.parsed_data) = 2
    /\ call.result.errors = <<call.args.parsed_data[1].name>>
    /\ call.result.projections_created = 1
    /\ \E i \in 1..Len(players) :
          players[i].name = call.args.parsed_data[2].name

-----------------------------------------------------------------------------
(* SpecQuery: the queries.  The store is the one an upload of a batch       *)
(* leaves in a new service (the empty store with the empty batch); the      *)
(* queries are then asked in any order.                                     *)

InitQuery ==
    /\ \E parsed_data \in UploadBatches \cup {<<>>} :
        LET st == ProcessProjectionData(
                      [players |-> <<>>, projections |-> <<>>,
                       next_player_id |-> 1,
                       players_created |-> 0, players_updated |-> 0,
                       projections_created |-> 0, errors |-> <<>>],
                      parsed_data)
        IN  /\ players = st.players
            /\ projections = st.projections
            /\ next_player_id = st.next_player_id
            /\ sources = IF parsed_data = <<>> THEN {} ELSE {"uploaded"}
    /\ call = NoCall
    /\ in_flight = <<>>

NextQuery ==
    /\ UNCHANGED in_flight
    /\ \/ \E position \in {{}, {"qb"}}, team \in {{}, {"kc"}},
             limit \in {{}, {0}, {1}} :
             GetProjectionsQuery(position, team, limit)
       \/ \E player_id \in 1..2 : GetPlayerProjection(player_id)
       \/ \E query \in {"", "E", "zz"}, limit \in {1, 20} :
             SearchPlayers(query, limit)
       \/ \E a \in RankingArgs :
             CalculateVorRankings(a.league, a.num_teams, a.include_flex,
                                  a.custom_roster)
       \/ \E position \in {"QB", "wr"}, limit \in {{}, {1}} :
             GetPositionVorRankings(position, None, limit)
       \/ \E player_ids \in {<<>>, <<1>>, <<2, 1>>} :
             ComparePlayersVor(player_ids, None)
       \/ \E round_number \in 1..2, draft_position \in {1, 12} :
             GetDraftTargetsByVor(round_number, draft_position, None, 12)

SpecQuery == InitQuery /\ [][NextQuery]_vars

QueryOps ==
    {"get_projections", "get_player_projection", "search_players",
     "calculate_vor_rankings", "get_position_vor_rankings",
     "compare_players_vor", "get_draft_targets_by_vor"}

\* C16: the queries get_projections, get_player_projection, search_players,
\* calculate_vor_rankings, get_position_vor_rankings, compare_players_vor and
\* get_draft_targets_by_vor leave the store unchanged: the stored players,
\* their projections, the sources and next_player_id are after the call what
\* they were before it.
C16_QueriesLeaveStore ==
    [][(call'.op \in QueryOps) =>
          /\ players' = players
          /\ projections' = projections
          /\ sources' = sources
          /\ next_player_id' = next_player_id]_vars

\* get_projections returned the two stored players, the second stored one
\* first: it sorted its result, not the store
C16_Witness ==
    /\ call.op = "get_projections"
    /\ call.args.position = {}
    /\ Len(call.result) = 2
    /\ Len(players) = 2
    /\ call.result[1].player = players[2]
    /\ projections[1].player_id = players[1].id

\* the ranking queries
RankingQueryOps ==
    {"calculate_vor_rankings", "get_position_vor_rankings",
     "compare_players_vor", "get_draft_targets_by_vor"}

\* C17: every ranking query on an empty store (calculate_vor_rankings,
\* get_position_vor_rankings, compare_players_vor, get_draft_targets_by_vor)
\* surfaces a no-data failure to its caller, with a reason saying that no
\* projection data is available; none returns a normal-looking empty result
\* or an unrelated error message.
C17_EmptyStoreNoData ==
    (call.op \in RankingQueryOps /\ players = <<>> /\ projections = <<>>) =>
        /\ call.result # <<>>
        /\ "error" \in DOMAIN call.result
        /\ call.result.error = "No projection data available"

-----------------------------------------------------------------------------
(* C18 *)

\* a roster with a negative slot count, or with a zero count for a position
\* that has stored players
InvalidSlotCount(roster) ==
    \E position \in DOMAIN roster :
        \/ roster[position] < 0
        \/ /\ roster[position] = 0
           /\ \E i \in 1..Len(players) : players[i].position = position

\* C18: a ranking request whose roster construction has an invalid slot
\* count (a negative count, or a zero count for a position that has players)
\* is rejected with an error: the call returns neither rankings nor
\* replacement levels computed from that roster.
C18_InvalidRosterRejected ==
    (/\ call.op = "calculate_vor_rankings"
     /\ InvalidSlotCount(call.args.custom_roster)) =>
        /\ "vor_rankings" \notin DOMAIN call.result
        /\ "replacement_levels" \notin DOMAIN call.result

-----------------------------------------------------------------------------
(* SpecConc: upload and ranking requests of several clients on the one      *)
(* event loop of the application.  A handler runs from one await to the     *)
(* next without any other handler running in between.                       *)

MaxInFlight == 2

\* the batches the clients upload
ConcBatches ==
    {b \in UploadBatches :
        \/ b[1].name = "Ann" /\ Len(b) = 2 /\ b[2].name = "Bob"
        \/ b[1].name = "Cy" /\ Len(b) = 2 /\ b[2].name = "ANN"
        \/ b[1].name = "Eve" /\ Len(b) = 1}

\* the number of records of the requests in flight
RECURSIVE RecordsInFlight(_)
RecordsInFlight(requests) ==
    IF requests = <<>> THEN 0
    ELSE Len(Head(requests).parsed_data) + RecordsInFlight(Tail(requests))

InitConc ==
    /\ players = <<>>
    /\ projections = <<>>
    /\ sources = {}
    /\ next_player_id = 1
    /\ call = NoCall
    /\ in_flight = <<>>

NextConc ==
    \/ \E parsed_data \in ConcBatches :
          /\ Len(in_flight) < MaxInFlight
          /\ Len(players) + RecordsInFlight(in_flight) + Len(parsed_data)
                <= MaxPlayers + 1
          /\ ReceiveUpload(parsed_data)
    \/ \E r \in 1..Len(in_flight) : UploadHandler(r)
    \/ /\ \E include_flex \in BOOLEAN :
             CalculateVorRankings(None, 14, include_flex, None)
       /\ UNCHANGED in_flight

SpecConc == InitConc /\ [][NextConc]_vars

\* the batch of a request in flight is applied in part
PartlyApplied(request) ==
    request.applied > 0 /\ request.applied < Len(request.parsed_data)

-----------------------------------------------------------------------------
(* C20 *)

\* C20: after any sequence of ingestions every stored player's position is
\* one of QB, RB, WR, TE, K, DST: a record with a position string outside
\* that set is rejected or stored under a position of the set, never under
\* a position outside it (the synthetic FLEX included).
C20_StoredPositionsClosed ==
    \A i \in 1..Len(players) :
        players[i].position \in {"QB", "RB", "WR", "TE", "K", "DST"}

-----------------------------------------------------------------------------
(* C21 *)

\* the place of a stored player in the list get_projections() hands to the
\* ranking
FedIndex(id) ==
    LET fed == GetProjections(players, projections)
    IN  CHOOSE i \in 1..Len(fed) : fed[i].player.id = id

\* C21: players with equal adjusted VOR are in vor_rankings in the order in
\* which get_projections() fed them to the ranking, whatever their ids,
\* names or positions; players of one position with equal points are in
\* that order in the position ranking.
C21_TiesKeepFedOrder ==
    RankingReturned =>
        \A result \in {call.result} :
            /\ \A i, j \in 1..Len(result.vor_rankings) :
                  LET a == result.vor_rankings[i]
                      b == result.vor_rankings[j]
                  IN  (/\ a.adjusted_vor = b.adjusted_vor
                       /\ FedIndex(a.player.id) < FedIndex(b.player.id))
                          => i < j
            /\ \A position \in DOMAIN result.position_rankings :
                  \A L \in {result.position_rankings[position]} :
                      \A i, j \in 1..Len(L) :
                          (/\ L[i].fantasy_points = L[j].fantasy_points
                           /\ FedIndex(L[i].player.id) < FedIndex(L[j].player.id))
                              => i < j

\* three players with equal adjusted VOR, the one stored last fed first
\* (it has the highest stored fantasy_points) and ranked first, the two
\* others of one position with equal points
C21_Witness ==
    /\ RankingReturned
    /\ Len(players) = 3
    /\ Len(Returned) = 3
    /\ Returned[1].adjusted_vor = Returned[3].adjusted_vor
    /\ Returned[1].player.id = 3
    /\ Returned[2].player.id = 1
    /\ Returned[2].player.position = Returned[3].player.position
    /\ Returned[2].fantasy_points = Returned[3].fantasy_points

-----------------------------------------------------------------------------
(* C22 *)

\* C22: every entry of vor_rankings has as position_rank its 1-based index
\* in the points-descending list of its position, so the position ranks of
\* a position are exactly 1..K_p; a player with strictly more points than
\* another of the same position has the smaller position rank and the
\* smaller overall rank.
C22_PositionRankCarried ==
    RankingReturned =>
        \A result \in {call.result} :
            LET entries == Range(result.vor_rankings)
            IN  /\ \A e \in entries :
                      LET L == result.position_rankings[e.player.position]
                      IN  /\ e.position_rank \in 1..Len(L)
                          /\ L[e.position_rank].player.id = e.player.id
                          /\ \A i, j \in 1..Len(L) :
                                i < j => L[i].fantasy_points >= L[j].fantasy_points
                /\ \A position \in {e.player.position : e \in entries} :
                      LET of_position ==
                              {e \in entries : e.player.position = position}
                      IN  {e.position_rank : e \in of_position}
                              = 1..Cardinality(of_position)
                /\ \A a, b \in entries :
                      (/\ a.player.position = b.player.position
                       /\ a.fantasy_points > b.fantasy_points)
                          => /\ a.position_rank < b.position_rank
                             /\ a.overall_rank < b.overall_rank

\* a position with two players, the one stored second with more points:
\* it has position rank 1 and is ranked ahead overall
C22_Witness ==
    /\ RankingReturned
    /\ \E a, b \in Range(call.result.vor_rankings) :
          /\ a.player.position = b.player.position
          /\ a.player.id > b.player.id
          /\ a.fantasy_points > b.fantasy_points
          /\ a.position_rank = 1
          /\ b.position_rank = 2
          /\ a.overall_rank < b.overall_rank

-----------------------------------------------------------------------------
(* C23 *)

\* the values of the points-allowed step function of a rule set, from the
\* band of 0 points allowed to the band of 35 and more
StepValues(rules) ==
    [i \in 1..7 |->
        Get(rules, <<"points_allowed_0", "points_allowed_1_6",
                     "points_allowed_7_13", "points_allowed_14_20",
                     "points_allowed_21_27", "points_allowed_28_34",
                     "points_allowed_35_plus">>[i], 0)]

NonIncreasing(values) ==
    \A i \in 1..Len(values) - 1 : values[i] >= values[i + 1]

\* C23: the points-allowed step function of every rule set scoring runs
\* with is non-increasing from the band of 0 to the band of 35 and more:
\* that of the presets and of the league-specific rules is, and a rule set
\* that breaks the ordering (custom_rules of create_custom_league) is not
\* accepted silently: validate_scoring_rules has a warning for it.
C23_StepFunctionNonIncreasing ==
    /\ \A rules \in {StandardRules, PprRules, HalfPprRules,
                     LeagueSpecificRules, LeagueDefaultScoringRules} :
          NonIncreasing(StepValues(rules))
    /\ (/\ call.op = "calculate_fantasy_points"
        /\ ~ScoringRaises(call.args.projection, call.args.league,
                          call.args.scoring_rules)) =>
          \A rules \in {RulesFor(call.args.league, call.args.scoring_rules)} :
              \/ NonIncreasing(StepValues(rules))
              \/ ValidateScoringRules(rules) # <<>>

-----------------------------------------------------------------------------
(* C24 *)

\* the last call was get_scoring_breakdown and returned a breakdown
BreakdownReturned ==
    /\ call.op = "get_scoring_breakdown"
    /\ "total" \in DOMAIN call.result

\* C24: the breakdown has an entry for a stat category exactly when the
\* stat is present in the projection (a present stat of value 0 has an
\* entry, an absent one has none); an absent stat adds nothing to the total:
\* the total is the sum of the entries of the present stats; points allowed
\* absent contribute nothing, and present with value 0 contribute the value
\* of the band of 0.
C24_BreakdownEntriesForPresentStats ==
    BreakdownReturned =>
        \A projection \in {call.args.projection}, breakdown \in {call.result} :
            /\ \A cat \in BreakdownCategories :
                  (cat[1] \in DOMAIN breakdown) <=> (cat[1] \in DOMAIN projection)
            /\ ("points_allowed" \in DOMAIN breakdown)
                  <=> ("points_allowed" \in DOMAIN projection)
            /\ breakdown.total =
                  SumEntries(breakdown, DOMAIN breakdown \ {"total"})
            /\ ("points_allowed" \in DOMAIN projection
                /\ projection["points_allowed"] = 0) =>
                  breakdown["points_allowed"] =
                      Thousandths(Get(RulesFor(call.args.league,
                                               call.args.scoring_rules),
                                      "points_allowed_0", 0))

-----------------------------------------------------------------------------
(* C25 *)

\* points per reception of the named presets, in hundredths
ClaimedReception(scoring_type) ==
    IF scoring_type = "standard" THEN 0
    ELSE IF scoring_type = "half_ppr" THEN 50
    ELSE 100

\* C25: scoring with a League (and no explicit rules) credits each reception
\* with the coefficient of the league's scoring_type: 0 for STANDARD, 0.5 for
\* HALF_PPR, 1.0 for PPR; a projection that has only receptions scores
\* receptions times that coefficient.
C25_PresetOfScoringType ==
    (/\ call.op = "calculate_fantasy_points"
     /\ call.args.scoring_rules = None
     /\ call.args.league # None
     /\ DOMAIN call.args.projection = {"receptions"}) =>
        call.result =
            Round2(call.args.projection["receptions"]
                   * ClaimedReception(call.args.league.scoring_type))

-----------------------------------------------------------------------------
(* C26 *)

\* C26: in every entry of vor_rankings the reported replacement_level is
\* the level the reported VOR was computed against: vor = fantasy_points -
\* replacement_level, for flex-eligible players with a FLEX level as well.
C26_ReportedLevelIsUsedLevel ==
    Ranked =>
        \A e \in Range(call.result.vor_rankings) :
            e.vor = e.fantasy_points - e.replacement_level

-----------------------------------------------------------------------------
(* C27 *)

\* C27: for the same projection and rule set, the "total" of
\* get_scoring_breakdown is the sum of its line items and, rounded to two
\* decimals, the total calculate_fantasy_points returns.
C27_BreakdownTotalIsScore ==
    BreakdownReturned =>
        /\ call.result.total =
              SumEntries(call.result, DOMAIN call.result \ {"total"})
        /\ Round2(call.result.total) =
              CalculateFantasyPoints(call.args.projection, call.args.league,
                                     call.args.scoring_rules)

-----------------------------------------------------------------------------
(* C28 *)

\* the ids with a stored player, and those with a stored projection
PlayerIds == {players[i].id : i \in 1..Len(players)}

ProjectionIds == {projections[i].player_id : i \in 1..Len(projections)}

\* the ingestion that was the last call reported failed records
UploadWithErrors ==
    /\ call.op = "upload_projections"
    /\ "errors" \in DOMAIN call.result
    /\ call.result.errors # <<>>

\* C28: after any sequence of upload_projections and clear_projections
\* calls the ids with a stored player are the ids with a stored projection,
\* they are exactly 1..K for K stored players, and next_player_id = K + 1;
\* an ingestion in which every record fails leaves players, projections and
\* next_player_id as they were.
C28_StoreConsistent ==
    /\ [](/\ PlayerIds = ProjectionIds
          /\ PlayerIds = 1..Len(players)
          /\ Len(projections) = Len(players)
          /\ next_player_id = Len(players) + 1)
    /\ [][(/\ call'.op = "upload_projections"
           /\ "errors" \in DOMAIN call'.result
           /\ Len(call'.result.errors) = call'.result.players_processed) =>
              /\ players' = players
              /\ projections' = projections
              /\ next_player_id' = next_player_id]_vars

\* an ingestion of two records, one of which failed, on a store that then
\* holds two players
C28_Witness ==
    /\ UploadWithErrors
    /\ call.result.players_processed = 2
    /\ Len(call.result.errors) = 1
    /\ Len(players) = 2
    /\ next_player_id = 3

-----------------------------------------------------------------------------
(* C29 *)

\* the records of a batch all name a player that is stored (same name up to
\* case, and the position the record's string is stored under)
AllStored(parsed_data) ==
    \A k \in 1..Len(parsed_data) :
        \E i \in 1..Len(players) :
            /\ NameLower(players[i].name) = NameLower(parsed_data[k].name)
            /\ players[i].position =
                  (IF parsed_data[k].position \in Position
                   THEN parsed_data[k].position ELSE "WR")

\* C29: after any sequence of ingestions no two stored players have the
\* same name (up to case) and the same stored position; ingesting a record
\* of a stored player again, a record with an unrecognized position string
\* included, creates no player.
C29_NoDuplicatePlayers ==
    /\ [](\A i, j \in 1..Len(players) :
             (/\ i # j
              /\ NameLower(players[i].name) = NameLower(players[j].name))
                 => players[i].position # players[j].position)
    /\ [][(/\ call'.op = "upload_projections"
           /\ "errors" \in DOMAIN call'.result
           /\ AllStored(call'.args.parsed_data)) =>
              Len(players') = Len(players)]_vars

\* the record with the position string "XX", stored as WR, was ingested again
C29_Witness ==
    /\ call.op = "upload_projections"
    /\ "errors" \in DOMAIN call.result
    /\ Len(call.args.parsed_data) = 1
    /\ call.args.parsed_data[1].position = "XX"
    /\ call.result.errors # <<>>
    /\ Len(players) = 1
    /\ players[1].position = "WR"

-----------------------------------------------------------------------------
(* C30 *)

\* C30: in the summary of an ingestion batch players_created is the number
\* of player ids that exist after the batch and did not before it,
\* players_updated is the number of records processed without error that
\* matched a player that existed already, and players_created +
\* players_updated = projections_created = the number of records processed
\* without error.
C30_SummaryCounts ==
    [][(/\ call'.op = "upload_projections"
        /\ "errors" \in DOMAIN call'.result
        /\ call' # call) =>
          \A summary \in {call'.result} :
              LET created == Cardinality(
                                 {players'[i].id : i \in 1..Len(players')}
                                 \ PlayerIds)
                  succeeded == summary.players_processed - Len(summary.errors)
              IN  /\ summary.players_created = created
                  /\ summary.players_updated = succeeded - created
                  /\ summary.players_created + summary.players_updated
                        = summary.projections_created
                  /\ summary.projections_created = succeeded]_vars

=============================================================================
